---- MODULE Spec2Model ----
(***************************************************************************)
(* Model of workstate's file-selection and archival subsystem and of the   *)
(* save / download commands built on it.                                   *)
(*                                                                         *)
(* Text is modelled as sequences of one-character strings, so that names   *)
(* can be taken apart (stem, suffix, path components) the way the code     *)
(* does.  A path is a sequence of names, absolute from the filesystem      *)
(* root <<>>.  The filesystem maps each existing path to a node.           *)
(***************************************************************************)
EXTENDS Integers, Sequences, FiniteSets, TLC

\* ------------------------------------------------------------------ bounds

\* download commands run in one behaviour
MaxRuns == 3
\* save commands run in one behaviour
MaxSaves == 2
\* files another process removes while a save is running
MaxVanish == 1

\* download-url commands in one behaviour
MaxUrlRuns == 2

\* init commands in one behaviour
MaxInits == 3

\* list commands in one behaviour
MaxLists == 1

\* byte counts of up to this many base-1024 digits are drawn freely
MaxLimbs == 3

\* how many commands a behaviour of the bucket model runs, its saves included
MaxCommands == 3

\* how many share commands a behaviour of the sharing model runs
MaxShares == 1

\* ------------------------------------------------------------------ text

\* src/constants/constants.py
DOT_ZIP == <<".", "z", "i", "p">>
IGNORE_FILE == <<".", "w", "o", "r", "k", "s", "t", "a", "t", "e", "i", "g", "n", "o", "r", "e">>
DOWNLOADS == <<"d", "o", "w", "n", "l", "o", "a", "d", "s">>

\* the characters of the model, in the order used to sort directory listings
Alphabet ==
    <<" ", "!", "#", "(", ")", "*", ".", "/", "0", "1", "2", "3", "4", "5", "6", "7", "8", "9",
      "I", "P", "Z",
      "a", "b", "c", "d", "e", "g", "i", "k", "l", "n", "o", "p", "r", "s", "t", "v", "w", "z">>

CharRank(c) == CHOOSE i \in 1..Len(Alphabet) : Alphabet[i] = c

\* s < t in the lexicographic order of Alphabet
RECURSIVE TextLess(_, _)
TextLess(s, t) ==
    IF t = <<>> THEN FALSE
    ELSE IF s = <<>> THEN TRUE
    ELSE IF Head(s) = Head(t) THEN TextLess(Tail(s), Tail(t))
    ELSE CharRank(Head(s)) < CharRank(Head(t))

\* the elements of a finite set of texts as a sorted sequence
RECURSIVE SortTexts(_)
SortTexts(S) ==
    IF S = {} THEN <<>>
    ELSE LET m == CHOOSE x \in S : \A y \in S \ {x} : TextLess(x, y)
         IN  <<m>> \o SortTexts(S \ {m})

\* str(k) for a natural number
RECURSIVE Digits(_)
Digits(k) ==
    LET d == <<"0", "1", "2", "3", "4", "5", "6", "7", "8", "9">>
    IN  IF k < 10 THEN <<d[k + 1]>> ELSE Digits(k \div 10) \o <<d[(k % 10) + 1]>>

\* str.rfind: the last position of c in s, 0 when there is none
RECURSIVE RFind(_, _)
RFind(s, c) ==
    IF s = <<>> THEN 0
    ELSE IF s[Len(s)] = c THEN Len(s)
    ELSE RFind(SubSeq(s, 1, Len(s) - 1), c)

\* str.split(sep): the pieces of s between occurrences of sep (empty pieces kept)
RECURSIVE SplitAt(_, _)
SplitAt(s, sep) ==
    LET i == RFind(s, sep)
    IN  IF i = 0 THEN <<s>>
        ELSE SplitAt(SubSeq(s, 1, i - 1), sep) \o <<SubSeq(s, i + 1, Len(s))>>

\* sep.join(parts)
RECURSIVE JoinWith(_, _)
JoinWith(parts, sep) ==
    IF parts = <<>> THEN <<>>
    ELSE IF Len(parts) = 1 THEN parts[1]
    ELSE parts[1] \o <<sep>> \o JoinWith(Tail(parts), sep)

EndsWith(s, t) ==
    /\ Len(s) >= Len(t)
    /\ SubSeq(s, Len(s) - Len(t) + 1, Len(s)) = t

\* ------------------------------------------------------------------ paths

\* pathlib's PurePath.suffix and PurePath.stem of a final component
HasSuffix(name) ==
    LET i == RFind(name, ".") IN 1 < i /\ i < Len(name)
Suffix(name) ==
    IF HasSuffix(name) THEN SubSeq(name, RFind(name, "."), Len(name)) ELSE <<>>
Stem(name) ==
    IF HasSuffix(name) THEN SubSeq(name, 1, RFind(name, ".") - 1) ELSE name

Parent(path) == SubSeq(path, 1, Len(path) - 1)
Name(path) == path[Len(path)]

IsPrefix(p, q) == Len(p) <= Len(q) /\ SubSeq(q, 1, Len(p)) = p

\* pathlib's parsing of a path string: empty and "." components are dropped,
\* ".." components are kept
PathParts(text) ==
    SelectSeq(SplitAt(text, "/"), LAMBDA c : c # <<>> /\ c # <<".">>)

\* base / text: an absolute text replaces the base
JoinPath(base, text) ==
    IF text # <<>> /\ Head(text) = "/" THEN PathParts(text)
    ELSE base \o PathParts(text)

\* the path the operating system reaches for a path that may hold ".."
\* components: each takes back the component before it, none at the root
RECURSIVE Collapse(_)
Collapse(path) ==
    IF path = <<>> THEN <<>>
    ELSE LET init == Collapse(SubSeq(path, 1, Len(path) - 1))
         IN  IF path[Len(path)] # <<".", ".">> THEN Append(init, path[Len(path)])
             ELSE IF init = <<>> THEN <<>>
             ELSE SubSeq(init, 1, Len(init) - 1)

\* Path.relative_to(root) followed by the conversion to an archive name
RelativeText(path, root) == JoinWith(SubSeq(path, Len(root) + 1, Len(path)), "/")

\* ------------------------------------------------------------------ filesystem

\* A file's content: the lines of a text file, or the entries of a ZIP container.
\* An archive entry is [filename |-> text, data |-> content].
TextData(lines) == [zip |-> FALSE, lines |-> lines, entries |-> <<>>]
ZipData(entries) == [zip |-> TRUE, lines |-> <<>>, entries |-> entries]
NoData == TextData(<<>>)

\* A node is a regular file, a directory, or a symbolic link to a path
\* (link is <<>> for a node that is no link; the root is never a link's target).
FileNode(data) == [dir |-> FALSE, data |-> data, link |-> <<>>]
DirNode == [dir |-> TRUE, data |-> NoData, link |-> <<>>]
LinkNode(target) == [dir |-> FALSE, data |-> NoData, link |-> target]

\* Path.is_symlink()
IsLink(f, path) == path \in DOMAIN f /\ f[path].link # <<>>

\* the path the operating system reaches when it follows the link at path
Resolve(f, path) == IF IsLink(f, path) THEN f[path].link ELSE path

\* Path.exists(), Path.is_file(), Path.is_dir() in the filesystem f: all three
\* follow a symbolic link, and a link whose target is missing does not exist
Exists(f, path) == path \in DOMAIN f /\ Resolve(f, path) \in DOMAIN f
IsFile(f, path) == Exists(f, path) /\ ~f[Resolve(f, path)].dir
IsDir(f, path) == Exists(f, path) /\ f[Resolve(f, path)].dir

\* open(path, "rb").read(): the content of the file the path leads to
ReadData(f, path) == f[Resolve(f, path)].data

Prefixes(path) == {SubSeq(path, 1, n) : n \in 0..Len(path)}

\* the directories on the way to a path, which may hold ".." components
Reached(path) == {Collapse(q) : q \in Prefixes(path)}

\* Path.mkdir(parents=True, exist_ok=True): fails, creating nothing, when the path
\* or one of its ancestors is a file; otherwise creates what is missing
MkdirFails(f, path) == \E q \in Reached(path) : IsFile(f, q)
Mkdir(f, path) ==
    [q \in DOMAIN f \cup Reached(path) |-> IF q \in DOMAIN f THEN f[q] ELSE DirNode]

\* open(path, "w" / "wb") and write: creates the file or replaces its content
WriteFile(f, path, data) ==
    [q \in DOMAIN f \cup {path} |-> IF q = path THEN FileNode(data) ELSE f[q]]

\* os.symlink(target, path): a symbolic link is made at a path that is free
Symlink(f, path, target) ==
    [q \in DOMAIN f \cup {path} |-> IF q = path THEN LinkNode(target) ELSE f[q]]

\* Path.unlink()
Unlink(f, path) == [q \in DOMAIN f \ {path} |-> f[q]]

\* ------------------------------------------------------------------ unzip

\* the candidate name of _resolve_conflict for a counter value
Candidate(path, counter) ==
    Parent(path) \o
        << IF Suffix(Name(path)) # <<>>
           THEN Stem(Name(path)) \o <<" ", "(">> \o Digits(counter) \o <<")">> \o Suffix(Name(path))
           ELSE Stem(Name(path)) \o <<" ", "(">> \o Digits(counter) \o <<")">> >>

\* mutant: the first candidate is taken without looking whether it exists
FirstFree_unchecked(f, path, counter) == Candidate(path, counter)

\* the loop of _resolve_conflict from a counter value on
RECURSIVE FirstFree(_, _, _)
FirstFree(f, path, counter) ==
    IF ~Exists(f, Collapse(Candidate(path, counter))) THEN Candidate(path, counter)
    ELSE FirstFree(f, path, counter + 1)

StartCounter == 1

\* mutant: the destination is used whether it exists or not
_resolve_conflict_overwrite(f, path) == path

_resolve_conflict(f, path) ==
    IF ~Exists(f, Collapse(path)) THEN path ELSE FirstFree(f, path, StartCounter)

\* ZipInfo.is_dir()
MemberIsDir(member) == member.filename # <<>> /\ member.filename[Len(member.filename)] = "/"

\* The loop of unzip over the members from position i on.  The result is the
\* filesystem left behind, whether the loop raised, and the writes it made:
\* one [member, dest, final] per file written, dest and final being the
\* places that extracted_path and final_path lead to.
RECURSIVE UnzipFrom(_, _, _, _, _)
UnzipFrom(members, i, extract_to, f, wrote) ==
    IF i > Len(members) THEN [fs |-> f, raised |-> FALSE, wrote |-> wrote]
    ELSE
        LET member == members[i]
            extracted_path == JoinPath(extract_to, member.filename)
        IN  IF MemberIsDir(member)
            THEN IF MkdirFails(f, extracted_path)
                 THEN [fs |-> f, raised |-> TRUE, wrote |-> wrote]
                 ELSE UnzipFrom(members, i + 1, extract_to, Mkdir(f, extracted_path), wrote)
            ELSE IF MkdirFails(f, Parent(extracted_path))
                 THEN [fs |-> f, raised |-> TRUE, wrote |-> wrote]
                 ELSE
                    LET g == Mkdir(f, Parent(extracted_path))
                        final_path == _resolve_conflict(g, extracted_path)
                    IN  UnzipFrom(members, i + 1, extract_to,
                                  WriteFile(g, Collapse(final_path), member.data),
                                  Append(wrote, [member |-> i, dest |-> Collapse(extracted_path),
                                                 final |-> Collapse(final_path)]))

\* mutant: something that is not a ZIP container is read as an empty archive
unzip_lenient(f, zip_file, extract_to) ==
    IF ~IsFile(f, zip_file) \/ ~f[zip_file].data.zip
    THEN [fs |-> f, raised |-> FALSE, wrote |-> <<>>]
    ELSE UnzipFrom(f[zip_file].data.entries, 1, extract_to, f, <<>>)

\* mutant: a failure undoes what was extracted before it
unzip_rollback(f, zip_file, extract_to) ==
    IF ~IsFile(f, zip_file) \/ ~f[zip_file].data.zip
    THEN [fs |-> f, raised |-> TRUE, wrote |-> <<>>]
    ELSE LET r == UnzipFrom(f[zip_file].data.entries, 1, extract_to, f, <<>>)
         IN  IF r.raised THEN [fs |-> f, raised |-> TRUE, wrote |-> r.wrote] ELSE r

\* unzip(zip_file) run in the directory extract_to: opening something that is
\* not a ZIP container raises before anything is written
unzip(f, zip_file, extract_to) ==
    IF ~IsFile(f, zip_file) \/ ~f[zip_file].data.zip
    THEN [fs |-> f, raised |-> TRUE, wrote |-> <<>>]
    ELSE UnzipFrom(f[zip_file].data.entries, 1, extract_to, f, <<>>)

\* ------------------------------------------------------------------ ignore rules

STARSTAR == <<"*", "*">>

\* str.strip() for the blank character
RECURSIVE Strip(_)
Strip(s) ==
    IF s = <<>> THEN s
    ELSE IF Head(s) = " " THEN Strip(Tail(s))
    ELSE IF s[Len(s)] = " " THEN Strip(SubSeq(s, 1, Len(s) - 1))
    ELSE s

\* One line of the ignore file as pathspec's gitwildmatch reads it: whether it
\* is a rule at all (blank lines and comments are not), whether it excludes
\* ("yes") or re-includes ("no": a ! rule), and its segments after
\* normalisation: a rule without an inner slash matches at any depth, a
\* trailing slash matches only what lies beneath a directory.
ParseRule(line) ==
    LET pattern == Strip(line)
        blank == pattern = <<>> \/ Head(pattern) = "#" \/ pattern = <<"/">>
        negated == ~blank /\ Head(pattern) = "!"
        body == IF negated THEN Tail(pattern) ELSE pattern
        segs0 == SplitAt(body, "/")
        segs1 == IF segs0[1] = <<>> THEN Tail(segs0)
                 ELSE IF Len(segs0) = 1 \/ (Len(segs0) = 2 /\ segs0[2] = <<>>)
                      THEN (IF segs0[1] # STARSTAR THEN <<STARSTAR>> \o segs0 ELSE segs0)
                      ELSE segs0
        segs2 == IF Len(segs1) > 1 /\ segs1[Len(segs1)] = <<>>
                 THEN SubSeq(segs1, 1, Len(segs1) - 1) \o <<STARSTAR>>
                 ELSE segs1
    IN  IF blank \/ body = <<>> \/ segs1 = <<>>
        THEN [include |-> "none", segs |-> <<>>]
        ELSE [include |-> IF negated THEN "no" ELSE "yes", segs |-> segs2]

\* a segment's glob against one path component: * is any run of characters
RECURSIVE GlobMatch(_, _)
GlobMatch(pat, name) ==
    IF pat = <<>> THEN name = <<>>
    ELSE IF Head(pat) = "*"
         THEN \E k \in 0..Len(name) : GlobMatch(Tail(pat), SubSeq(name, k + 1, Len(name)))
         ELSE name # <<>> /\ Head(name) = Head(pat) /\ GlobMatch(Tail(pat), Tail(name))

\* the segments from position i on against the components from position j on
RECURSIVE MatchFrom(_, _, _, _)
MatchFrom(segs, i, comps, j) ==
    IF segs[i] = STARSTAR
    THEN IF i = Len(segs) THEN j <= Len(comps)
         ELSE \E k \in j..(Len(comps) + 1) : MatchFrom(segs, i + 1, comps, k)
    ELSE /\ j <= Len(comps)
         /\ GlobMatch(segs[i], comps[j])
         /\ (i = Len(segs) \/ MatchFrom(segs, i + 1, comps, j + 1))

\* mutant: the first rule that matches decides
RECURSIVE MatchRules_first(_, _, _, _)
MatchRules_first(lines, i, comps, sofar) ==
    IF i > Len(lines) THEN sofar
    ELSE LET rule == ParseRule(lines[i])
         IN  IF rule.include # "none" /\ MatchFrom(rule.segs, 1, comps, 1)
             THEN rule.include = "yes"
             ELSE MatchRules_first(lines, i + 1, comps, sofar)

\* PathSpec.match_file over the rule lines from position i on: the last rule
\* that matches decides
RECURSIVE MatchRules(_, _, _, _)
MatchRules(lines, i, comps, sofar) ==
    IF i > Len(lines) THEN sofar
    ELSE LET rule == ParseRule(lines[i])
         IN  MatchRules(lines, i + 1, comps,
                        IF rule.include # "none" /\ MatchFrom(rule.segs, 1, comps, 1)
                        THEN rule.include = "yes" ELSE sofar)

\* ------------------------------------------------------------------ select_files

\* the entries of one directory, in listing order
Listing(f, dir) ==
    LET names == SortTexts({Name(p) : p \in {q \in DOMAIN f : Len(q) = Len(dir) + 1 /\ Parent(q) = dir}})
    IN  [n \in 1..Len(names) |-> dir \o <<names[n]>>]

\* root.rglob("*"): the entries of a directory, then those of each of its
\* subdirectories in turn; a symbolic link to a directory is listed but not
\* descended into
RECURSIVE RGlob(_, _)
RECURSIVE RGlobEach(_, _)
RGlob(f, dir) ==
    Listing(f, dir) \o RGlobEach(f, SelectSeq(Listing(f, dir), LAMBDA p : IsDir(f, p) /\ ~IsLink(f, p)))
RGlobEach(f, dirs) ==
    IF dirs = <<>> THEN <<>> ELSE RGlob(f, Head(dirs)) \o RGlobEach(f, Tail(dirs))

\* mutant: only the entries of the root itself are matched against the rules
IgnoredSet_toplevel(f, root, lines) ==
    {p \in DOMAIN f :
        /\ IsFile(f, p) /\ Parent(p) = root
        /\ MatchRules(lines, 1, SubSeq(p, Len(root) + 1, Len(p)), FALSE)}

\* spec.match_tree(root), joined to the root again: the files under root that
\* the rule lines exclude
IgnoredSet(f, root, lines) ==
    {p \in DOMAIN f :
        /\ IsFile(f, p) /\ IsPrefix(root, p) /\ p # root
        /\ MatchRules(lines, 1, SubSeq(p, Len(root) + 1, Len(p)), FALSE)}

KeepFile(ignored, file) == file \notin ignored

\* mutant: files without content are passed over
IsRegular_nonempty(f, path) == IsFile(f, path) /\ ReadData(f, path) # NoData

\* mutant: directories pass the is_file filter
IsRegular_any(f, path) == Exists(f, path)

IsRegular(f, path) == IsFile(f, path)

\* mutant: nothing is selected without an ignore file
select_files_needs_ignore(f, root) ==
    LET all_files == SelectSeq(RGlob(f, root), LAMBDA p : IsRegular(f, p))
        ignore_file == root \o <<IGNORE_FILE>>
    IN  IF Exists(f, ignore_file)
        THEN LET ignored == IgnoredSet(f, root, f[ignore_file].data.lines)
             IN  SelectSeq(all_files, LAMBDA file : KeepFile(ignored, file))
        ELSE <<>>

select_files(f, root) ==
    LET all_files == SelectSeq(RGlob(f, root), LAMBDA p : IsRegular(f, p))
        ignore_file == root \o <<IGNORE_FILE>>
    IN  IF Exists(f, ignore_file)
        THEN LET ignored == IgnoredSet(f, root, f[ignore_file].data.lines)
             IN  SelectSeq(all_files, LAMBDA file : KeepFile(ignored, file))
        ELSE all_files

\* ------------------------------------------------------------------ sizes

\* A Python integer has no width.  A byte count is held as its base-1024
\* digits, lowest first, without a highest digit of zero (0 is <<>>), so
\* that dividing by 1024 moves the digits and no intermediate value leaves
\* the range of the model checker's integers.
LIMB == 1024

\* without its highest digits of zero
RECURSIVE Norm(_)
Norm(v) == IF v # <<>> /\ v[Len(v)] = 0 THEN Norm(SubSeq(v, 1, Len(v) - 1)) ELSE v

\* v * c + carry from digit i on, for c and carry below 1024
RECURSIVE MulFrom(_, _, _, _)
MulFrom(v, i, c, carry) ==
    IF i > Len(v) THEN (IF carry = 0 THEN <<>> ELSE <<carry>>)
    ELSE LET x == v[i] * c + carry
         IN  <<x % LIMB>> \o MulFrom(v, i + 1, c, x \div LIMB)

\* v + x * 1024^(i-1), for x below 1024
RECURSIVE AddAt(_, _, _)
AddAt(v, i, x) ==
    IF i > Len(v) THEN AddAt(Append(v, 0), i, x)
    ELSE LET sum == v[i] + x
         IN  IF sum < LIMB THEN [v EXCEPT ![i] = sum]
             ELSE AddAt([v EXCEPT ![i] = sum - LIMB], i + 1, 1)

\* the digits 1..i of v divided by d, the digits above having left rem
RECURSIVE DivFrom(_, _, _, _)
DivFrom(v, i, d, rem) ==
    IF i = 0 THEN [quot |-> <<>>, rem |-> rem]
    ELSE LET x == rem * LIMB + v[i]
             r == DivFrom(v, i - 1, d, x % d)
         IN  [quot |-> Append(r.quot, x \div d), rem |-> r.rem]

\* the decimal digits of k < 10^6, all six of them
Pad6(k) ==
    LET d == Digits(k)
    IN  [i \in 1..(6 - Len(d)) |-> "0"] \o d

\* str(v) of a byte count, six decimal digits at a time
RECURSIVE Decimal(_)
Decimal(v) ==
    LET r == DivFrom(v, Len(v), 1000000, 0)
        q == Norm(r.quot)
    IN  IF q = <<>> THEN Digits(r.rem) ELSE Decimal(q) \o Pad6(r.rem)

Pow2(b) == <<1, 2, 4, 8, 16, 32, 64, 128, 256, 512, 1024>>[b + 1]

\* int.bit_length
BitLength(v) ==
    IF v = <<>> THEN 0
    ELSE 10 * (Len(v) - 1) + CHOOSE b \in 1..10 : Pow2(b - 1) <= v[Len(v)] /\ v[Len(v)] < Pow2(b)

\* a double has 53 significant bits and no finite value of 2^1024 or more
MANT_DIG == 53
MAX_EXP == 1024

\* the double nearest to the integer v, ties to the even one
RoundToDouble(v) ==
    LET q == BitLength(v) - MANT_DIG
        a == q \div 10
        b == q % 10
        limb == v[a + 1]
        guard == IF b > 0 THEN (limb \div Pow2(b - 1)) % 2 = 1 ELSE v[a] \div 512 = 1
        sticky == IF b > 0
                  THEN limb % Pow2(b - 1) # 0 \/ \E i \in 1..a : v[i] # 0
                  ELSE v[a] % 512 # 0 \/ \E i \in 1..(a - 1) : v[i] # 0
        lsb == (limb \div Pow2(b)) % 2 = 1
        kept == [i \in 1..Len(v) |->
                    IF i <= a THEN 0
                    ELSE IF i = a + 1 THEN (limb \div Pow2(b)) * Pow2(b) ELSE v[i]]
    IN  IF q <= 0 THEN v
        ELSE IF guard /\ (sticky \/ lsb) THEN AddAt(kept, a + 1, Pow2(b)) ELSE kept

\* float(size_bytes): OverflowError when the nearest double is not finite
ToFloat(v) ==
    LET d == RoundToDouble(v)
    IN  [raised |-> BitLength(d) > MAX_EXP, value |-> d]

\* f"{size:.1f}" for size = v / 1024^k: the decimal expansion of the double
\* rounded to one place, ties to the even digit
Fixed1(v, k) ==
    LET whole == SubSeq(v, k + 1, Len(v))
        frac == [i \in 1..k |-> IF i <= Len(v) THEN v[i] ELSE 0]
        t == MulFrom(frac, 1, 10, 0)
        digit == IF Len(t) > k THEN t[k + 1] ELSE 0
        above == k > 0 /\ (t[k] > 512 \/ (t[k] = 512 /\ \E i \in 1..(k - 1) : t[i] # 0))
        tie == k > 0 /\ t[k] = 512 /\ \A i \in 1..(k - 1) : t[i] = 0
        tenth == digit + (IF above \/ (tie /\ digit % 2 = 1) THEN 1 ELSE 0)
    IN  Decimal(IF tenth = 10 THEN AddAt(whole, 1, 1) ELSE whole)
            \o <<".">> \o Digits(tenth % 10)

units == << <<"B">>, <<"K", "B">>, <<"M", "B">>, <<"G", "B">>, <<"T", "B">> >>
PB == <<"P", "B">>

\* the loop of format_file_size: size is v / 1024^k on entering round k + 1
RECURSIVE FormatLoop(_, _)
FormatLoop(v, k) ==
    IF k = Len(units) THEN Fixed1(v, k) \o <<" ">> \o PB
    ELSE IF Len(v) <= k + 1 THEN Fixed1(v, k) \o <<" ">> \o units[k + 1]
    ELSE FormatLoop(v, k + 1)

\* format_file_size
format_file_size(size_bytes) ==
    LET size == ToFloat(size_bytes)
    IN  IF size.raised THEN [raised |-> TRUE, text |-> <<>>]
        ELSE [raised |-> FALSE, text |-> FormatLoop(size.value, 0)]

\* ------------------------------------------------------------------ state

VARIABLES
    fs,        \* the local filesystem: path -> node
    bucket,    \* the remote bucket: key -> [data, modified]
    cwd,       \* the directory the commands are run in
    pc,        \* where the running command stands ("idle": none is running)
    loc,       \* the locals of the running command, kept after it ends
    runs,      \* commands started so far
    vanished,  \* files removed by another process so far
    now,       \* the clock, in seconds
    hist       \* the locals of each command that has ended, in order

vars == <<fs, bucket, cwd, pc, loc, runs, vanished, now, hist>>

\* the directories of the model: two working directories and the system's
\* directory for temporary files
WorkDir == <<<<"w">>>>
OtherDir == <<<<"v">>>>
TempDir == <<<<"t", "m", "p">>>>

NoLoc ==
    [cmd |-> "none", result |-> "none", label |-> <<>>, key |-> <<>>,
     only_download |-> FALSE, files_to_save |-> <<>>, idx |-> 0, zip |-> <<>>,
     wrote |-> <<>>, log |-> <<>>, warned |-> FALSE, root |-> <<>>, fresh |-> FALSE,
     again |-> <<>>, arg |-> <<>>, out |-> <<>>, error |-> FALSE]

\* a directory that holds nothing
IsEmptyDir(f, dir) == IsDir(f, dir) /\ ~\E q \in DOMAIN f : q # dir /\ IsPrefix(dir, q)

\* ------------------------------------------------------------------ logging

\* src/utils/logs.py runs when a command imports it: the logs directory and
\* this second's log file are created in the working directory
LogDir(dir) == dir \o <<<<"l", "o", "g", "s">>>>
LogFile(dir, t) ==
    LogDir(dir) \o << <<"a", "p", "p", "_">> \o Digits(t) \o <<".", "l", "o", "g">> >>

ImportLogs(f, dir, t) ==
    LET g == Mkdir(f, LogDir(dir))
    IN  IF Exists(g, LogFile(dir, t)) THEN g ELSE WriteFile(g, LogFile(dir, t), NoData)

\* log.warning(...): one more line in the log file
WARNING == <<"w", "a", "r", "n">>
LogWarning(f, log) ==
    IF IsFile(f, log) THEN WriteFile(f, log, TextData(Append(f[log].data.lines, WARNING))) ELSE f

\* ------------------------------------------------------------------ save

\* mutant: blanks around the label are dropped
define_zip_file_name_stripped(project_name) == Strip(project_name) \o DOT_ZIP

define_zip_file_name(project_name) == project_name \o DOT_ZIP

\* NamedTemporaryFile(suffix=DOT_ZIP, delete=False): a name that is not in use
RECURSIVE FreshTemp(_, _)
FreshTemp(f, n) ==
    LET path == TempDir \o << <<"t">> \o Digits(n) \o DOT_ZIP >>
    IN  IF Exists(f, path) THEN FreshTemp(f, n + 1) ELSE path

\* mutant: the file's own name, without its directories
ArcName_basename(file, root) == Name(file)

\* mutant: the absolute path, as when arcname is not passed
ArcName_absolute(file, root) == <<"/">> \o JoinWith(file, "/")

\* the archive name zip_files gives a file
ArcName(file, root) == RelativeText(file, root)

\* SaveCommandImpl.execute up to the return of select_files
SaveSelect(label) ==
    /\ pc = "idle"
    /\ runs < MaxSaves
    /\ LET log == LogFile(cwd, now)
           f1 == ImportLogs(fs, cwd, now)
           warn == ~Exists(f1, cwd \o <<IGNORE_FILE>>)
       IN  /\ fs' = IF warn THEN LogWarning(f1, log) ELSE f1
           /\ loc' = [NoLoc EXCEPT !.cmd = "save", !.result = "running", !.label = label,
                                   !.files_to_save = select_files(f1, cwd),
                                   !.log = log, !.warned = warn, !.root = cwd,
                                   !.fresh = IsEmptyDir(fs, cwd)]
    /\ pc' = "save_selected"
    /\ runs' = runs + 1
    /\ now' = now + 1
    /\ UNCHANGED <<bucket, cwd, vanished, hist>>

\* another process removes a selected file while the save is running
Vanish(file) ==
    /\ pc \in {"save_selected", "save_zipping"}
    /\ vanished < MaxVanish
    /\ IsFile(fs, file)
    /\ fs' = Unlink(fs, file)
    /\ vanished' = vanished + 1
    /\ UNCHANGED <<bucket, cwd, pc, loc, runs, now, hist>>

\* zip_files: the temporary file is created and opened as an empty archive
ZipOpen ==
    /\ pc = "save_selected"
    /\ LET tmp == FreshTemp(fs, 0)
       IN  /\ fs' = WriteFile(fs, tmp, ZipData(<<>>))
           /\ loc' = [loc EXCEPT !.zip = tmp, !.idx = 1]
    /\ pc' = "save_zipping"
    /\ UNCHANGED <<bucket, cwd, runs, vanished, now, hist>>

\* zipf.write cannot read the file: os.stat raises FileNotFoundError
Missing(f, file) == ~IsFile(f, file)

\* zip_files: zipf.write of the next file of the list
ZipWrite ==
    /\ pc = "save_zipping"
    /\ loc.idx <= Len(loc.files_to_save)
    /\ ~Missing(fs, loc.files_to_save[loc.idx])
    /\ LET file == loc.files_to_save[loc.idx]
           entry == [filename |-> ArcName(file, cwd), data |-> ReadData(fs, file)]
       IN  fs' = WriteFile(fs, loc.zip, ZipData(Append(fs[loc.zip].data.entries, entry)))
    /\ loc' = [loc EXCEPT !.idx = loc.idx + 1]
    /\ UNCHANGED <<bucket, cwd, pc, runs, vanished, now, hist>>

\* mutant: a file that is gone is passed over
ZipWriteSkips ==
    /\ pc = "save_zipping"
    /\ loc.idx <= Len(loc.files_to_save)
    /\ Missing(fs, loc.files_to_save[loc.idx])
    /\ loc' = [loc EXCEPT !.idx = loc.idx + 1]
    /\ UNCHANGED <<fs, bucket, cwd, pc, runs, vanished, now, hist>>

\* zip_files: zipf.write raises because the file is gone; both with-blocks
\* close the archive and the exception leaves execute
ZipWriteRaises ==
    /\ pc = "save_zipping"
    /\ loc.idx <= Len(loc.files_to_save)
    /\ Missing(fs, loc.files_to_save[loc.idx])
    /\ loc' = [loc EXCEPT !.result = "raised"]
    /\ pc' = "idle"
    /\ hist' = Append(hist, loc')
    /\ UNCHANGED <<fs, bucket, cwd, runs, vanished, now>>

\* zip_files returns the path of the closed archive
ZipClose ==
    /\ pc = "save_zipping"
    /\ loc.idx > Len(loc.files_to_save)
    /\ loc' = [loc EXCEPT !.key = define_zip_file_name(loc.label)]
    /\ pc' = "save_zipped"
    /\ UNCHANGED <<fs, bucket, cwd, runs, vanished, now, hist>>

\* bucket.upload_file: the object stored under the key is replaced
save_state_file(b, f, zip_file, object_name, t) ==
    [k \in DOMAIN b \cup {object_name} |->
        IF k = object_name THEN [data |-> f[zip_file].data, modified |-> t] ELSE b[k]]

\* the filesystem after execute's last statements, the upload having returned
AfterUpload(f, zip_file) == Unlink(f, zip_file)

\* the rest of execute when the upload succeeds
SaveUpload ==
    /\ pc = "save_zipped"
    /\ bucket' = save_state_file(bucket, fs, loc.zip, loc.key, now)
    /\ fs' = AfterUpload(fs, loc.zip)
    /\ loc' = [loc EXCEPT !.result = "returned"]
    /\ pc' = "idle"
    /\ hist' = Append(hist, loc')
    /\ UNCHANGED <<cwd, runs, vanished, now>>

\* mutant: the archive is removed although the upload raised
AfterUploadRaised_unlinks(f, zip_file) == Unlink(f, zip_file)

\* the filesystem when save_state_file raises out of execute
AfterUploadRaised(f, zip_file) == f

\* the upload raises (network, credentials): the exception leaves execute
SaveUploadRaises ==
    /\ pc = "save_zipped"
    /\ fs' = AfterUploadRaised(fs, loc.zip)
    /\ loc' = [loc EXCEPT !.result = "raised"]
    /\ pc' = "idle"
    /\ hist' = Append(hist, loc')
    /\ UNCHANGED <<bucket, cwd, runs, vanished, now>>

\* ------------------------------------------------------------------ download

\* filter_zip_files / only_zip_files: the keys that end in DOT_ZIP
filter_zip_files(b) == {k \in DOMAIN b : EndsWith(k, DOT_ZIP)}

\* where download_state_file puts an object
Destination(dir, object_name) == JoinPath(dir \o <<DOWNLOADS>>, object_name)

\* download_state_file when the transfer succeeds
download_state_file(f, b, dir, object_name) ==
    WriteFile(Mkdir(f, Parent(Destination(dir, object_name))),
              Destination(dir, object_name), b[object_name].data)

\* DownloadCommandImpl.execute with no snapshot in the bucket: typer.Exit(0)
DownloadNothing ==
    /\ pc = "idle"
    /\ runs < MaxRuns
    /\ filter_zip_files(bucket) = {}
    /\ fs' = ImportLogs(fs, cwd, now)
    /\ loc' = [NoLoc EXCEPT !.cmd = "download", !.result = "exit0", !.log = LogFile(cwd, now),
                            !.root = cwd, !.fresh = IsEmptyDir(fs, cwd)]
    /\ hist' = Append(hist, loc')
    /\ runs' = runs + 1
    /\ now' = now + 1
    /\ UNCHANGED <<bucket, cwd, pc, vanished>>

\* DownloadCommandImpl.execute up to the return of the download
DownloadFetch(selected_zip_file, only_download) ==
    /\ pc = "idle"
    /\ runs < MaxRuns
    /\ selected_zip_file \in filter_zip_files(bucket)
    /\ LET f1 == ImportLogs(fs, cwd, now)
       IN  /\ ~MkdirFails(f1, Parent(Destination(cwd, selected_zip_file)))
           /\ ~IsDir(f1, Destination(cwd, selected_zip_file))
           /\ fs' = download_state_file(f1, bucket, cwd, selected_zip_file)
    /\ loc' = [NoLoc EXCEPT !.cmd = "download", !.result = "running",
                            !.key = selected_zip_file, !.only_download = only_download,
                            !.zip = Destination(cwd, selected_zip_file),
                            !.log = LogFile(cwd, now),
                            !.root = cwd, !.fresh = IsEmptyDir(fs, cwd)]
    /\ pc' = "dl_fetched"
    /\ runs' = runs + 1
    /\ now' = now + 1
    /\ UNCHANGED <<bucket, cwd, vanished, hist>>

\* the download raises (network, or the downloads directory cannot be made)
DownloadFetchRaises(selected_zip_file) ==
    /\ pc = "idle"
    /\ runs < MaxRuns
    /\ selected_zip_file \in filter_zip_files(bucket)
    /\ LET f1 == ImportLogs(fs, cwd, now)
           parent == Parent(Destination(cwd, selected_zip_file))
       IN  fs' = IF MkdirFails(f1, parent) THEN f1 ELSE Mkdir(f1, parent)
    /\ loc' = [NoLoc EXCEPT !.cmd = "download", !.result = "raised",
                            !.key = selected_zip_file, !.log = LogFile(cwd, now),
                            !.root = cwd, !.fresh = IsEmptyDir(fs, cwd)]
    /\ hist' = Append(hist, loc')
    /\ runs' = runs + 1
    /\ now' = now + 1
    /\ UNCHANGED <<bucket, cwd, pc, vanished>>

\* the filesystem after the statements that follow unzip in execute
AfterUnzip(f, zip_file) == Unlink(f, zip_file)

\* the filesystem when unzip raises out of execute
AfterUnzipRaised(f, zip_file) == f

\* the rest of execute without --only-download: unzip, then unlink
DownloadRestore ==
    /\ pc = "dl_fetched"
    /\ ~loc.only_download
    /\ LET r == unzip(fs, loc.zip, cwd)
       IN  /\ fs' = IF r.raised THEN AfterUnzipRaised(r.fs, loc.zip) ELSE AfterUnzip(r.fs, loc.zip)
           /\ loc' = [loc EXCEPT !.result = IF r.raised THEN "raised" ELSE "returned",
                                 !.wrote = r.wrote]
    /\ pc' = "idle"
    /\ hist' = Append(hist, loc')
    /\ UNCHANGED <<bucket, cwd, runs, vanished, now>>

\* the rest of execute with --only-download
DownloadKeep ==
    /\ pc = "dl_fetched"
    /\ loc.only_download
    /\ loc' = [loc EXCEPT !.result = "returned"]
    /\ pc' = "idle"
    /\ hist' = Append(hist, loc')
    /\ UNCHANGED <<fs, bucket, cwd, runs, vanished, now>>

\* A caller of file_service that extracts the archive zip_files has just
\* returned in another, empty directory: os.chdir(dir), then unzip(archive).
RoundTripExtract(dir) ==
    /\ pc = "save_zipped"
    /\ dir # cwd
    /\ IsEmptyDir(fs, dir)
    /\ LET r == unzip(fs, loc.zip, dir)
       IN  /\ fs' = r.fs
           /\ loc' = [loc EXCEPT !.cmd = "roundtrip", !.wrote = r.wrote,
                                 !.result = IF r.raised THEN "raised" ELSE "returned"]
    /\ cwd' = dir
    /\ pc' = "idle"
    /\ hist' = Append(hist, loc')
    /\ UNCHANGED <<bucket, runs, vanished, now>>

\* ------------------------------------------------------------------ download-url

\* str.find: the first position of c in s, 0 when there is none
RECURSIVE Find(_, _)
Find(s, c) ==
    IF s = <<>> THEN 0
    ELSE IF Head(s) = c THEN 1
    ELSE LET i == Find(Tail(s), c) IN IF i = 0 THEN 0 ELSE i + 1

\* the part of s before the first of the characters in stops
UpTo(s, stops) ==
    LET hits == {i \in 1..Len(s) : s[i] \in stops}
    IN  IF hits = {} THEN s ELSE SubSeq(s, 1, (CHOOSE i \in hits : \A j \in hits : i <= j) - 1)

\* urllib.parse.urlparse: scheme ":" "//" netloc path "?" query
urlparse(url) ==
    LET colon == Find(url, ":")
        slash == Find(url, "/")
        has_scheme == colon > 1 /\ (slash = 0 \/ colon < slash)
        scheme == IF has_scheme THEN SubSeq(url, 1, colon - 1) ELSE <<>>
        rest == IF has_scheme THEN SubSeq(url, colon + 1, Len(url)) ELSE url
        has_netloc == Len(rest) >= 2 /\ SubSeq(rest, 1, 2) = <<"/", "/">>
        netloc == IF has_netloc THEN UpTo(SubSeq(rest, 3, Len(rest)), {"/", "?", "#"}) ELSE <<>>
        after == IF has_netloc THEN SubSeq(rest, 3 + Len(netloc), Len(rest)) ELSE rest
    IN  [scheme |-> scheme, netloc |-> netloc, path |-> UpTo(after, {"?", "#"})]

_is_valid_url(url) == urlparse(url).scheme # <<>> /\ urlparse(url).netloc # <<>>

SHARED_NAME ==
    <<"w", "o", "r", "k", "s", "t", "a", "t", "e", "-",
      "s", "h", "a", "r", "e", "d", ".", "z", "i", "p">>

\* os.path.basename of the URL's path, or the default name
_get_filename_from_url(url) ==
    LET path == urlparse(url).path
        filename == SubSeq(path, RFind(path, "/") + 1, Len(path))
    IN  IF filename = <<>> \/ Find(filename, ".") = 0 THEN SHARED_NAME ELSE filename

\* output_path is <<>> when the option is not given
_get_output_file(dir, output_path, filename) ==
    IF output_path # <<>> THEN JoinPath(dir, output_path) ELSE dir \o <<filename>>

\* str.lower
Lower(text) ==
    [i \in 1..Len(text) |->
        IF text[i] = "Z" THEN "z" ELSE IF text[i] = "I" THEN "i"
        ELSE IF text[i] = "P" THEN "p" ELSE text[i]]

\* requests.get(url): the server answers with the object the URL's path
\* names, or with an error status when there is none
ObjectOf(url) == LET path == urlparse(url).path IN SubSeq(path, 2, Len(path))
Answers(b, url) == ObjectOf(url) \in DOMAIN b

\* open(output_path, "wb") fails when the directory is missing or the path
\* is a directory
OpenFails(f, path) == ~IsDir(f, Parent(path)) \/ IsDir(f, path)

\* _download_file: an existing file at output_path is truncated and rewritten
_download_file(f, b, url, output_path) ==
    IF ~Answers(b, url) \/ OpenFails(f, output_path) THEN [fs |-> f, raised |-> TRUE]
    ELSE [fs |-> WriteFile(f, output_path, b[ObjectOf(url)].data), raised |-> FALSE]

\* ZipFile._extract_member: the name without "", "." and ".." components
Sanitized(name) ==
    SelectSeq(SplitAt(name, "/"), LAMBDA c : c # <<>> /\ c # <<".">> /\ c # <<".", ".">>)

\* ZipFile.extractall(path) from member i on: each file is opened with "wb"
RECURSIVE ExtractAllFrom(_, _, _, _)
ExtractAllFrom(members, i, path, f) ==
    IF i > Len(members) THEN [fs |-> f, raised |-> FALSE]
    ELSE
        LET member == members[i]
            targetpath == path \o Sanitized(member.filename)
        IN  IF MkdirFails(f, Parent(targetpath)) THEN [fs |-> f, raised |-> TRUE]
            ELSE LET g == Mkdir(f, Parent(targetpath))
                 IN  IF MemberIsDir(member)
                     THEN IF IsFile(g, targetpath) THEN [fs |-> g, raised |-> TRUE]
                          ELSE ExtractAllFrom(members, i + 1, path, Mkdir(g, targetpath))
                     ELSE IF IsDir(g, targetpath) THEN [fs |-> g, raised |-> TRUE]
                          ELSE ExtractAllFrom(members, i + 1, path,
                                              WriteFile(g, targetpath, member.data))

\* _extract_zip: every exception is caught and reported; the archive is
\* removed when the extraction succeeded and the user confirms
_extract_zip(f, zip_path, confirm) ==
    IF ~f[zip_path].data.zip THEN [fs |-> f, error |-> TRUE]
    ELSE LET r == ExtractAllFrom(f[zip_path].data.entries, 1, Parent(zip_path), f)
         IN  IF r.raised THEN [fs |-> r.fs, error |-> TRUE]
             ELSE [fs |-> IF confirm THEN Unlink(r.fs, zip_path) ELSE r.fs, error |-> FALSE]

\* DownloadUrlCommandImpl.execute
DownloadUrl(url, extract, output_path, confirm) ==
    /\ pc = "idle"
    /\ runs < MaxUrlRuns
    /\ LET f1 == ImportLogs(fs, cwd, now)
           output_file == _get_output_file(cwd, output_path, _get_filename_from_url(url))
           d == _download_file(f1, bucket, url, output_file)
           x == _extract_zip(d.fs, output_file, confirm)
           extracts == extract /\ Lower(Suffix(Name(output_file))) = DOT_ZIP
           mine == [NoLoc EXCEPT !.cmd = "download-url", !.arg = url, !.zip = output_file,
                                 !.log = LogFile(cwd, now), !.root = cwd]
       IN  IF ~_is_valid_url(url)
           THEN /\ fs' = f1
                /\ loc' = [mine EXCEPT !.result = "returned", !.error = TRUE, !.zip = <<>>]
           ELSE IF d.raised
           THEN /\ fs' = d.fs
                /\ loc' = [mine EXCEPT !.result = "raised"]
           ELSE IF extracts
           THEN /\ fs' = x.fs
                /\ loc' = [mine EXCEPT !.result = "returned", !.error = x.error,
                                       !.only_download = FALSE]
           ELSE /\ fs' = d.fs
                /\ loc' = [mine EXCEPT !.result = "returned", !.only_download = TRUE]
    /\ hist' = Append(hist, loc')
    /\ runs' = runs + 1
    /\ now' = now + 1
    /\ UNCHANGED <<bucket, cwd, pc, vanished>>

\* the commands of the command line: a return ends the process with status 0,
\* every exception, typer.Exit among them, is passed to handle_error
handle_error == 1
ExitStatus(result) == IF result = "returned" THEN 0 ELSE handle_error

\* ------------------------------------------------------------------ share

\* the query parameters botocore's signers write into a pre-signed URL
ACCESS_KEY_PARAM ==
    <<"A", "W", "S", "A", "c", "c", "e", "s", "s", "K", "e", "y",
      "I", "d">>
SIGNATURE_PARAM == <<"S", "i", "g", "n", "a", "t", "u", "r", "e">>
EXPIRES_PARAM == <<"E", "x", "p", "i", "r", "e", "s">>
TOKEN_PARAM ==
    <<"x", "-", "a", "m", "z", "-", "s", "e", "c", "u", "r", "i",
      "t", "y", "-", "t", "o", "k", "e", "n">>
V4_ALGORITHM ==
    <<"X", "-", "A", "m", "z", "-", "A", "l", "g", "o", "r", "i",
      "t", "h", "m">>
V4_CREDENTIAL ==
    <<"X", "-", "A", "m", "z", "-", "C", "r", "e", "d", "e", "n",
      "t", "i", "a", "l">>
V4_DATE == <<"X", "-", "A", "m", "z", "-", "D", "a", "t", "e">>
V4_EXPIRES == <<"X", "-", "A", "m", "z", "-", "E", "x", "p", "i", "r", "e",
      "s">>
V4_SIGNED_HEADERS ==
    <<"X", "-", "A", "m", "z", "-", "S", "i", "g", "n", "e", "d",
      "H", "e", "a", "d", "e", "r", "s">>
V4_SIGNATURE ==
    <<"X", "-", "A", "m", "z", "-", "S", "i", "g", "n", "a", "t",
      "u", "r", "e">>

\* name=value
Param(name, value) == name \o <<"=">> \o value

\* the URL of the object without its query
ObjectUrl(object_key) == <<"h", ":", "/", "/", "x", "/">> \o object_key

\* HmacV1QueryAuth: the access key, the signature and the expiry, then the
\* session token when the credentials are temporary (token is <<>> when not)
SigV2Url(object_key, signature, expires, token) ==
    ObjectUrl(object_key) \o <<"?">> \o Param(ACCESS_KEY_PARAM, <<"K">>)
        \o <<"&">> \o Param(SIGNATURE_PARAM, signature)
        \o <<"&">> \o Param(EXPIRES_PARAM, expires)
        \o (IF token = <<>> THEN <<>> ELSE <<"&">> \o Param(TOKEN_PARAM, token))

\* SigV4QueryAuth: algorithm, credential scope, date, lifetime, signed
\* headers, then the signature
SigV4Url(object_key, signature, expires) ==
    ObjectUrl(object_key) \o <<"?">> \o Param(V4_ALGORITHM, <<"A">>)
        \o <<"&">> \o Param(V4_CREDENTIAL, <<"K">>)
        \o <<"&">> \o Param(V4_DATE, <<"2">>)
        \o <<"&">> \o Param(V4_EXPIRES, expires)
        \o <<"&">> \o Param(V4_SIGNED_HEADERS, <<"h">>)
        \o <<"&">> \o Param(V4_SIGNATURE, signature)

\* generate_presigned_url at time t: the URLs the S3 client may return for
\* object_key, according to the signature version of the region and the kind
\* of credentials; version 2 writes the time of expiry, version 4 the
\* lifetime; the signature is one of signatures
generate_presigned_url(object_key, expiration_seconds, t, signatures) ==
    { SigV2Url(object_key, s, Digits(t + expiration_seconds), token) :
            s \in signatures, token \in {<<>>, <<"T">>} }
        \cup { SigV4Url(object_key, s, Digits(expiration_seconds)) : s \in signatures }

\* destructure_pre_signed_url: the text before the first "&", and the values
\* of the two parameters that follow it; IndexError when one is missing
destructure_pre_signed_url(url) ==
    LET url_split == SplitAt(url, "&")
        second == SplitAt(url_split[2], "=")
        third == SplitAt(url_split[3], "=")
    IN  IF Len(url_split) < 3 THEN [raised |-> TRUE, parts |-> <<>>]
        ELSE IF Len(second) < 2 \/ Len(third) < 2 THEN [raised |-> TRUE, parts |-> <<>>]
        ELSE [raised |-> FALSE, parts |-> <<url_split[1], second[2], third[2]>>]

\* ShareCommandImpl.execute: selected_state is <<>> when nothing is selected;
\* the panel shows the three parts of the URL and the URL itself
Share(selected_state, expiration_hours, signatures) ==
    /\ pc = "idle"
    /\ runs < MaxShares
    /\ selected_state = <<>> \/ selected_state \in filter_zip_files(bucket)
    /\ \E presigned_url \in generate_presigned_url(selected_state, expiration_hours * 3600, now, signatures) :
        LET d == destructure_pre_signed_url(presigned_url)
            mine == [NoLoc EXCEPT !.cmd = "share", !.key = selected_state,
                                  !.log = LogFile(cwd, now), !.root = cwd]
        IN  loc' = IF selected_state = <<>> THEN [mine EXCEPT !.result = "returned"]
                   ELSE IF d.raised THEN [mine EXCEPT !.result = "raised", !.arg = presigned_url]
                   ELSE [mine EXCEPT !.result = "returned", !.arg = presigned_url,
                                     !.out = d.parts]
    /\ fs' = ImportLogs(fs, cwd, now)
    /\ hist' = Append(hist, loc')
    /\ runs' = runs + 1
    /\ now' = now + 1
    /\ UNCHANGED <<bucket, cwd, pc, vanished>>

\* download_url of the command line: the URL is put together from the three
\* options, then the command runs
full_url(base_url, signature, expires) ==
    base_url \o <<"&">> \o Param(SIGNATURE_PARAM, signature)
        \o <<"&">> \o Param(EXPIRES_PARAM, expires)

DownloadFromParts(base_url, signature, expires, extract, output_path, confirm) ==
    DownloadUrl(full_url(base_url, signature, expires), extract, output_path, confirm)

\* ------------------------------------------------------------------ init

\* CodeTool: three of its values
TOOL_C == <<"c">>
TOOL_PHP == <<"p", "h", "p">>
TOOL_DEFAULT == <<"d", "e", "f", "a", "u", "l", "t">>
CodeTool == { TOOL_C, TOOL_PHP, TOOL_DEFAULT }

\* the template of each tool, as the lines of the ignore file it makes
TEMPLATES_WORKSTATE ==
    (TOOL_C :> << <<"*", ".", "o">> >>)
    @@ (TOOL_PHP :> << <<"v", "/">>, <<"*", ".", "t">> >>)
    @@ (TOOL_DEFAULT :> << <<"#", " ", "b">> >>)

\* mutant: the ignore file is written whether it exists or not
create_workstateignore_always(f, dir, tool) ==
    WriteFile(f, dir \o <<IGNORE_FILE>>, TextData(TEMPLATES_WORKSTATE[tool]))

\* create_workstateignore run in the directory dir
create_workstateignore(f, dir, tool) ==
    IF ~Exists(f, dir \o <<IGNORE_FILE>>)
    THEN WriteFile(f, dir \o <<IGNORE_FILE>>, TextData(TEMPLATES_WORKSTATE[tool]))
    ELSE f

\* InitCommandImpl.execute: a text that names no tool is reported and nothing
\* is written
InitCommand(tool) ==
    /\ pc = "idle"
    /\ runs < MaxInits
    /\ LET f1 == ImportLogs(fs, cwd, now)
       IN  IF tool \in CodeTool
           THEN /\ fs' = create_workstateignore(f1, cwd, tool)
                /\ loc' = [NoLoc EXCEPT !.cmd = "init", !.arg = tool, !.result = "returned",
                                        !.log = LogFile(cwd, now), !.root = cwd]
           ELSE /\ fs' = f1
                /\ loc' = [NoLoc EXCEPT !.cmd = "init", !.arg = tool, !.result = "returned",
                                        !.error = TRUE,
                                        !.log = LogFile(cwd, now), !.root = cwd]
    /\ hist' = Append(hist, loc')
    /\ runs' = runs + 1
    /\ now' = now + 1
    /\ UNCHANGED <<bucket, cwd, pc, vanished>>

\* ------------------------------------------------------------------ list

\* bucket.objects.all(): the store lists the objects in the order of their keys
list_objects(b) == SortTexts(DOMAIN b)

\* mutant: every object is taken for a snapshot
only_zip_files_all(files) == files

\* only_zip_files, local to list_states
only_zip_files(files) == SelectSeq(files, LAMBDA key : EndsWith(key, DOT_ZIP))

\* list_states: the keys of the snapshots, as listed
list_states(b) == only_zip_files(list_objects(b))

\* zip_files_table: a row for each object in the order given (the size column,
\* format_file_size of the object's size, is left out)
zip_files_table(b, zip_files) ==
    [i \in 1..Len(zip_files) |->
        [key |-> zip_files[i], modified |-> b[zip_files[i]].modified]]

\* ListCommandImpl.execute: the table is printed
ListCommand ==
    /\ pc = "idle"
    /\ runs < MaxLists
    /\ fs' = ImportLogs(fs, cwd, now)
    /\ loc' = [NoLoc EXCEPT !.cmd = "list", !.result = "returned",
                            !.out = zip_files_table(bucket, list_states(bucket)),
                            !.log = LogFile(cwd, now), !.root = cwd]
    /\ hist' = Append(hist, loc')
    /\ runs' = runs + 1
    /\ now' = now + 1
    /\ UNCHANGED <<bucket, cwd, pc, vanished>>

\* ------------------------------------------------------------------ delete

\* mutant: the object is left in the bucket
delete_state_file_keeps(b, s3_object_name) == b

\* Object(s3_object_name).delete()
delete_state_file(b, s3_object_name) == [k \in DOMAIN b \ {s3_object_name} |-> b[k]]

\* DeleteCommandImpl.execute: the snapshot selected at the prompt is deleted
Delete(selected_zip_file) ==
    /\ pc = "idle"
    /\ runs < MaxCommands
    /\ selected_zip_file \in filter_zip_files(bucket)
    /\ bucket' = delete_state_file(bucket, selected_zip_file)
    /\ fs' = ImportLogs(fs, cwd, now)
    /\ loc' = [NoLoc EXCEPT !.cmd = "delete", !.result = "returned",
                            !.key = selected_zip_file,
                            !.log = LogFile(cwd, now), !.root = cwd]
    /\ hist' = Append(hist, loc')
    /\ runs' = runs + 1
    /\ now' = now + 1
    /\ UNCHANGED <<cwd, pc, vanished>>

\* DeleteCommandImpl.execute with no snapshot in the bucket: the prompt
\* raises typer.Exit(0)
DeleteNothing ==
    /\ pc = "idle"
    /\ runs < MaxCommands
    /\ filter_zip_files(bucket) = {}
    /\ fs' = ImportLogs(fs, cwd, now)
    /\ loc' = [NoLoc EXCEPT !.cmd = "delete", !.result = "exit0",
                            !.log = LogFile(cwd, now), !.root = cwd]
    /\ hist' = Append(hist, loc')
    /\ runs' = runs + 1
    /\ now' = now + 1
    /\ UNCHANGED <<bucket, cwd, pc, vanished>>

\* ------------------------------------------------------------------ status

\* StatusCommandImpl.execute: select_files, then the table of the files is printed
Status ==
    /\ pc = "idle"
    /\ runs < MaxRuns
    /\ LET log == LogFile(cwd, now)
           f1 == ImportLogs(fs, cwd, now)
           warn == ~Exists(f1, cwd \o <<IGNORE_FILE>>)
       IN  /\ fs' = IF warn THEN LogWarning(f1, log) ELSE f1
           /\ loc' = [NoLoc EXCEPT !.cmd = "status", !.result = "returned",
                                   !.files_to_save = select_files(f1, cwd),
                                   !.log = log, !.warned = warn, !.root = cwd,
                                   !.fresh = IsEmptyDir(fs, cwd)]
    /\ hist' = Append(hist, loc')
    /\ runs' = runs + 1
    /\ now' = now + 1
    /\ UNCHANGED <<bucket, cwd, pc, vanished>>

\* A caller of file_service that calls select_files twice in a row: the
\* second call finds the filesystem as the first one left it.
SelectTwice ==
    /\ pc = "idle"
    /\ runs < MaxRuns
    /\ LET log == LogFile(cwd, now)
           f1 == ImportLogs(fs, cwd, now)
           warn == ~Exists(f1, cwd \o <<IGNORE_FILE>>)
           f2 == IF warn THEN LogWarning(f1, log) ELSE f1
       IN  /\ fs' = IF warn THEN LogWarning(f2, log) ELSE f2
           /\ loc' = [NoLoc EXCEPT !.cmd = "select2", !.result = "returned",
                                   !.files_to_save = select_files(f1, cwd),
                                   !.again = select_files(f2, cwd),
                                   !.log = log, !.warned = warn, !.root = cwd,
                                   !.fresh = IsEmptyDir(fs, cwd)]
    /\ hist' = Append(hist, loc')
    /\ runs' = runs + 1
    /\ now' = now + 1
    /\ UNCHANGED <<bucket, cwd, pc, vanished>>

\* ------------------------------------------------------------------ display

\* a view formats the size of a file or snapshot for display
FormatSize ==
    /\ pc = "idle"
    /\ loc.cmd = "none"
    /\ loc' = [loc EXCEPT !.cmd = "format", !.out = format_file_size(loc.arg)]
    /\ hist' = Append(hist, loc')
    /\ UNCHANGED <<fs, bucket, cwd, pc, runs, vanished, now>>

\* ------------------------------------------------------------------ initial states

\* file names of the model: a.t, a (1).t, b, c.t
NameA == <<"a", ".", "t">>
NameA1 == <<"a", " ", "(", "1", ")", ".", "t">>
NameB == <<"b">>
NameC == <<"c", ".", "t">>

\* a text file's content, told apart by its one line
Data(c) == TextData(<<<<c>>>>)

\* the filesystem holding the given files (path -> data), the directories
\* above them and the three directories of the model
FsOf(files) ==
    LET dirs == UNION {Prefixes(Parent(p)) : p \in DOMAIN files}
                    \cup Prefixes(WorkDir) \cup Prefixes(OtherDir) \cup Prefixes(TempDir)
    IN  [q \in dirs \cup DOMAIN files |->
            IF q \in DOMAIN files THEN FileNode(files[q]) ELSE DirNode]

\* a function with the given domain restricted to the arguments whose value is kept
Present(files) == [p \in {q \in DOMAIN files : files[q] # "-"} |-> files[p]]

\* the project trees a behaviour may start from: each file absent ("-") or
\* present with some content; b is a file, or a directory holding c.t
ProjectTrees(dir) ==
    { Present((dir \o <<NameA>> :> a) @@ (dir \o <<NameA1>> :> a1)
              @@ (dir \o <<NameB>> :> b) @@ (dir \o <<NameB, NameC>> :> c))
        : a \in {"-", "1", "2"}, a1 \in {"-", "2"},
          b \in {"-", "3"}, c \in {"-", "1"} }

WellFormedTree(files) ==
    \A p \in DOMAIN files : \A q \in Prefixes(Parent(p)) : q \notin DOMAIN files

\* the ignore files a behaviour may start from ("-": there is none)
RuleB == <<"b", "/">>
RuleT == <<"*", ".", "t">>
RuleNotA == <<"!", "a", ".", "t">>
RuleRootA == <<"/", "a", ".", "t">>
RuleComment == <<"#", " ", "b">>
IgnoreFiles ==
    { "-", <<>>, <<RuleB>>, <<RuleT, RuleNotA>>, <<RuleComment, RuleRootA>>, <<NameB>> }

\* further ignore files: comments only, and rules that override one another
RuleNotC == <<"!", "c", ".", "t">>
IgnoreFilesMore ==
    { "-", <<>>, <<RuleB>>, <<RuleT, RuleNotA>>, <<RuleComment, RuleRootA>>, <<NameB>>,
      <<RuleComment>>, <<RuleNotA, RuleT, RuleNotC>> }

\* the symbolic links a project may hold: c.t to a file outside the root,
\* a (1).t to a file inside it, b to a directory outside it or to nothing
LinkTargets(name) ==
    IF name = NameC THEN {"-", OtherDir \o <<NameA>>}
    ELSE IF name = NameA1 THEN {"-", WorkDir \o <<NameA>>}
    ELSE {"-", OtherDir, OtherDir \o <<NameC>>}

\* the filesystem with a link added, or as it is ("-")
WithLink(f, path, target) == IF target = "-" THEN f ELSE Symlink(f, path, target)

\* the archives that may lie in the bucket at the start, made by any tool
Entry(filename, c) == [filename |-> filename, data |-> Data(c)]
TextAB == <<"b", "/", "c", ".", "t">>
Archives ==
    { <<Entry(NameA, "1")>>,
      <<Entry(NameA, "1"), Entry(NameA1, "2")>>,
      <<Entry(NameA, "1"), Entry(NameA, "2")>>,
      <<Entry(RuleB, "1"), Entry(TextAB, "1")>>,
      <<Entry(TextAB, "1"), Entry(NameB, "3")>>,
      <<Entry(NameA, "2"), Entry(NameB, "3"), Entry(TextAB, "1")>> }

KeyS == <<"s", ".", "z", "i", "p">>
KeyN == <<"n", ".", "z", "i", "p">>
KeyT == <<"n", ".", "t">>
Labels == { <<"s">> }

\* the labels a user may pass: also the empty one, a blank, and one that
\* starts with a blank
LabelsAny == { <<"s">>, <<>>, <<" ">>, <<" ", "s">> }

Object(data) == [data |-> data, modified |-> 0]

\* the buckets a behaviour may start from
Buckets ==
    { <<>> }
    \cup { (KeyS :> Object(ZipData(a))) : a \in Archives }
    \cup { (KeyN :> Object(Data("1"))) @@ (KeyT :> Object(Data("2"))) }
    \cup { (KeyT :> Object(Data("2"))) }

TypeFs(files) == [p \in DOMAIN files |-> Data(files[p])]

IgnoreAt(dir, ig) == IF ig = "-" THEN <<>> ELSE (dir \o <<IGNORE_FILE>>) :> TextData(ig)

Selected == {loc.files_to_save[n] : n \in 1..Len(loc.files_to_save)}

\* Byte counts: every count of up to MaxLimbs digits drawn from LimbValues,
\* and counts around the unit steps, the precision of a double and its range.
LimbValues == {0, 1, 256, 512, 999, 1023}
Power(e, d) == [i \in 1..(e + 1) |-> IF i = e + 1 THEN d ELSE 0]
Sizes ==
    {<<>>}
    \cup UNION {{v \in [1..n -> LimbValues] : v[n] # 0} : n \in 1..MaxLimbs}
    \cup {<<1023, 1023, 1023>>, <<52, 1>>, <<51, 1>>, <<973, 1023>>}
    \cup {Power(e, 1) : e \in 3..6}
    \cup {Power(5, 8), AddAt(Power(5, 8), 1, 1), AddAt(Power(5, 8), 1, 3),
          <<0, 0, 0, 0, 512, 1>>, <<1023, 1023, 1023, 1023, 1023, 1023>>,
          <<1, 0, 0, 0, 461, 1>>}
    \cup {Power(8, 8), Power(102, 16), Power(103, 1),
          [i \in 1..103 |-> IF i = 103 THEN 15 ELSE 1023]}

\* Shared URLs: of the snapshot s.zip, of the object n.t, of the object d
\* (a name without a dot), of an object that does not exist, and a text
\* that is no URL.
KeyD == <<"d">>
Url(object_name) == <<"h", ":", "/", "/", "x", "/">> \o object_name \o <<"?", "k", "=", "1">>
Urls == { Url(KeyS), Url(KeyT), Url(KeyD), Url(KeyN), <<"x", "/">> \o KeyS }

\* the archives behind the shared URL of s.zip
UpA == <<".", ".", "/">> \o NameA
SharedArchives ==
    { <<Entry(NameA, "1")>>,
      <<Entry(TextAB, "1"), Entry(NameB, "3")>>,
      <<Entry(UpA, "2"), Entry(RuleB, "1")>> }

\* what the user passes as --output: nothing, or a.t
Outputs == { <<>>, NameA }

\* the directories download-url may be run in: a.t, b, b/c.t and s.zip may exist
UrlTrees ==
    { Present((WorkDir \o <<NameA>> :> a) @@ (WorkDir \o <<NameB>> :> b)
              @@ (WorkDir \o <<NameB, NameC>> :> c) @@ (WorkDir \o <<KeyS>> :> z))
        : a \in {"-", "1"}, b \in {"-", "3"}, c \in {"-", "1"}, z \in {"-", "4"} }

\* the labels saved under in the bucket model, and the buckets it starts from:
\* empty, or holding the snapshots n.zip and possibly s.zip beside n.t
BucketLabels == { <<"s">>, <<"n">> }
StartBuckets ==
    { <<>>,
      (KeyN :> Object(ZipData(<<Entry(NameB, "3")>>))) @@ (KeyT :> Object(Data("2"))),
      (KeyS :> Object(ZipData(<<>>))) @@ (KeyN :> Object(ZipData(<<Entry(NameB, "3")>>)))
            @@ (KeyT :> Object(Data("2"))) }

\* what the user passes as --hours, and the signatures the signer may compute
Hours == {1, 24}
Signatures == { <<"P">>, <<"Z", "%", "3", "D">> }

\* what the user passes as --tool: a tool's name, or something else
Tools == CodeTool \cup { <<"x">> }

\* the buckets that are listed: each of four keys absent (0) or uploaded at
\* one of three times; s.ZIP and n.t do not end in ".zip"
KeyZ == <<"s", ".", "Z", "I", "P">>
Stamped(times) ==
    [k \in {q \in DOMAIN times : times[q] # 0} |->
        [data |-> ZipData(<<>>), modified |-> times[k]]]
ListBuckets ==
    { Stamped((KeyS :> s) @@ (KeyN :> n) @@ (KeyT :> t) @@ (KeyZ :> z))
        : s \in 0..3, n \in 0..3, t \in {0, 2}, z \in {0, 3} }

\* archives whose entry names leave the directory they are extracted in:
\* /v/a.t, ../a.t, b/../../v/c.t, ../b/ - and ../w/a.t, which comes back
AbsA == <<"/", "v", "/">> \o NameA
UpBackA == <<".", ".", "/", "w", "/">> \o NameA
DeepUpC == <<"b", "/", ".", ".", "/", ".", ".", "/", "v", "/">> \o NameC
UpDirB == <<".", ".", "/", "b", "/">>
TraversalArchives ==
    { <<Entry(NameA, "1")>>,
      <<Entry(AbsA, "1")>>,
      <<Entry(UpA, "2")>>,
      <<Entry(UpBackA, "1"), Entry(NameA, "2")>>,
      <<Entry(DeepUpC, "1")>>,
      <<Entry(UpDirB, "1")>>,
      <<Entry(NameA, "1"), Entry(AbsA, "2"), Entry(UpA, "1")>> }

\* a.t may exist in the working directory, in the other one and at the root
TraversalTrees ==
    { Present((WorkDir \o <<NameA>> :> a) @@ (OtherDir \o <<NameA>> :> v) @@ (<<NameA>> :> r))
        : a \in {"-", "1"}, v \in {"-", "3"}, r \in {"-", "4"} }

\* ------------------------------------------------------------------ specifications

\* Saving: a project with an ignore file, saved repeatedly while another
\* process may remove files.
InitSave ==
    /\ \E w \in {t \in ProjectTrees(WorkDir) : WellFormedTree(t)}, ig \in IgnoreFiles :
            fs = FsOf(TypeFs(w) @@ IgnoreAt(WorkDir, ig))
    /\ bucket = <<>>
    /\ cwd = WorkDir
    /\ pc = "idle"
    /\ loc = NoLoc
    /\ runs = 0
    /\ vanished = 0
    /\ now = 1
    /\ hist = <<>>

NextSave ==
    \/ \E label \in Labels : SaveSelect(label)
    \/ \E file \in Selected : Vanish(file)
    \/ ZipOpen
    \/ ZipWrite
    \/ ZipWriteRaises
    \/ ZipClose
    \/ SaveUpload
    \/ SaveUploadRaises

SpecSave == InitSave /\ [][NextSave]_vars

\* Restoring: any archive of the bucket, downloaded repeatedly into a
\* directory that may already hold files.
InitRestore ==
    /\ \E v \in {t \in ProjectTrees(OtherDir) : WellFormedTree(t)} : fs = FsOf(TypeFs(v))
    /\ bucket \in Buckets
    /\ cwd = OtherDir
    /\ pc = "idle"
    /\ loc = NoLoc
    /\ runs = 0
    /\ vanished = 0
    /\ now = 1
    /\ hist = <<>>

NextRestore ==
    \/ DownloadNothing
    \/ \E key \in DOMAIN bucket, only \in BOOLEAN : DownloadFetch(key, only)
    \/ \E key \in DOMAIN bucket : DownloadFetchRaises(key)
    \/ DownloadRestore
    \/ DownloadKeep

SpecRestore == InitRestore /\ [][NextRestore]_vars

\* Selecting and archiving in one directory and extracting in another, empty one.
NextRoundTrip ==
    \/ \E label \in Labels : SaveSelect(label)
    \/ ZipOpen
    \/ ZipWrite
    \/ ZipClose
    \/ \E dir \in {WorkDir, OtherDir} : RoundTripExtract(dir)

SpecRoundTrip == InitSave /\ [][NextRoundTrip]_vars

\* Selecting: the status command and repeated selection in a project with any
\* of the ignore files.
InitStatus ==
    /\ \E w \in {t \in ProjectTrees(WorkDir) : WellFormedTree(t)}, ig \in IgnoreFilesMore :
            fs = FsOf(TypeFs(w) @@ IgnoreAt(WorkDir, ig))
    /\ bucket = <<>>
    /\ cwd = WorkDir
    /\ pc = "idle"
    /\ loc = NoLoc
    /\ runs = 0
    /\ vanished = 0
    /\ now = 1
    /\ hist = <<>>

NextStatus ==
    \/ Status
    \/ SelectTwice

SpecStatus == InitStatus /\ [][NextStatus]_vars

\* Saving a project that holds symbolic links; a file a.t lies inside the
\* root and another a.t outside it, in the other directory.
InitLinks ==
    /\ \E c \in LinkTargets(NameC), a1 \in LinkTargets(NameA1), b \in LinkTargets(NameB),
          ig \in {"-", <<>>} :
            fs = WithLink(WithLink(WithLink(
                    FsOf(((WorkDir \o <<NameA>>) :> Data("1")) @@ ((OtherDir \o <<NameA>>) :> Data("2"))
                         @@ IgnoreAt(WorkDir, ig)),
                    WorkDir \o <<NameC>>, c), WorkDir \o <<NameA1>>, a1), WorkDir \o <<NameB>>, b)
    /\ bucket = <<>>
    /\ cwd = WorkDir
    /\ pc = "idle"
    /\ loc = NoLoc
    /\ runs = 0
    /\ vanished = 0
    /\ now = 1
    /\ hist = <<>>

NextLinks ==
    \/ \E label \in Labels : SaveSelect(label)
    \/ ZipOpen
    \/ ZipWrite
    \/ ZipClose
    \/ SaveUpload

SpecLinks == InitLinks /\ [][NextLinks]_vars

\* Saving under any label, the upload succeeding.
NextLabels ==
    \/ \E label \in LabelsAny : SaveSelect(label)
    \/ ZipOpen
    \/ ZipWrite
    \/ ZipClose
    \/ SaveUpload

SpecLabels == InitSave /\ [][NextLabels]_vars

\* Formatting a byte count for display.
InitFormat ==
    /\ fs = FsOf(<<>>)
    /\ bucket = <<>>
    /\ cwd = WorkDir
    /\ pc = "idle"
    /\ \E n \in Sizes : loc = [NoLoc EXCEPT !.arg = n]
    /\ runs = 0
    /\ vanished = 0
    /\ now = 1
    /\ hist = <<>>

NextFormat == FormatSize

SpecFormat == InitFormat /\ [][NextFormat]_vars

\* Downloading from shared URLs into a directory that may hold files, with a
\* bucket that holds the snapshot s.zip and two objects that are no archives.
InitUrl ==
    /\ \E w \in {t \in UrlTrees : WellFormedTree(t)} : fs = FsOf(TypeFs(w))
    /\ \E a \in SharedArchives :
            bucket = (KeyS :> Object(ZipData(a))) @@ (KeyT :> Object(Data("2")))
                        @@ (KeyD :> Object(Data("1")))
    /\ cwd = WorkDir
    /\ pc = "idle"
    /\ loc = NoLoc
    /\ runs = 0
    /\ vanished = 0
    /\ now = 1
    /\ hist = <<>>

NextUrl ==
    \E url \in Urls, extract \in BOOLEAN, output_path \in Outputs, confirm \in BOOLEAN :
        DownloadUrl(url, extract, output_path, confirm)

SpecUrl == InitUrl /\ [][NextUrl]_vars

\* Sharing a snapshot of the bucket and downloading it with the three parts
\* that the share command displayed.
InitShare == InitUrl

NextShare ==
    \/ \E selected_state \in {<<>>, KeyS}, expiration_hours \in Hours :
            Share(selected_state, expiration_hours, Signatures)
    \/ \E extract \in BOOLEAN, output_path \in Outputs, confirm \in BOOLEAN :
            /\ loc.cmd = "share"
            /\ loc.out # <<>>
            /\ DownloadFromParts(loc.out[1], loc.out[2], loc.out[3],
                                 extract, output_path, confirm)

SpecShare == InitShare /\ [][NextShare]_vars

\* Saving and deleting snapshots of a bucket, under two labels.
InitBucket ==
    /\ \E c \in {"-", "1"} :
            fs = FsOf(TypeFs(Present((WorkDir \o <<NameA>> :> "1")
                                        @@ (WorkDir \o <<NameB, NameC>> :> c))))
    /\ bucket \in StartBuckets
    /\ cwd = WorkDir
    /\ pc = "idle"
    /\ loc = NoLoc
    /\ runs = 0
    /\ vanished = 0
    /\ now = 1
    /\ hist = <<>>

NextBucket ==
    \/ \E label \in BucketLabels : SaveSelect(label)
    \/ \E file \in Selected : Vanish(file)
    \/ ZipOpen
    \/ ZipWrite
    \/ ZipWriteRaises
    \/ ZipClose
    \/ SaveUpload
    \/ SaveUploadRaises
    \/ \E selected_zip_file \in filter_zip_files(bucket) : Delete(selected_zip_file)
    \/ DeleteNothing

SpecBucket == InitBucket /\ [][NextBucket]_vars

\* Initializing a project that has one of the ignore files or none.
InitInit ==
    /\ \E a \in {"-", "1"}, ig \in IgnoreFiles :
            fs = FsOf(TypeFs(Present(WorkDir \o <<NameA>> :> a)) @@ IgnoreAt(WorkDir, ig))
    /\ bucket = <<>>
    /\ cwd = WorkDir
    /\ pc = "idle"
    /\ loc = NoLoc
    /\ runs = 0
    /\ vanished = 0
    /\ now = 1
    /\ hist = <<>>

NextInit == \E tool \in Tools : InitCommand(tool)

SpecInit == InitInit /\ [][NextInit]_vars

\* Listing a bucket.
InitList ==
    /\ fs = FsOf(<<>>)
    /\ bucket \in ListBuckets
    /\ cwd = WorkDir
    /\ pc = "idle"
    /\ loc = NoLoc
    /\ runs = 0
    /\ vanished = 0
    /\ now = 4
    /\ hist = <<>>

NextList == ListCommand

SpecList == InitList /\ [][NextList]_vars

\* Saving a small project, with every failure of the save command.
InitStages ==
    /\ \E w \in {t \in ProjectTrees(WorkDir) :
                    /\ WellFormedTree(t)
                    /\ WorkDir \o <<NameA1>> \notin DOMAIN t
                    /\ WorkDir \o <<NameB>> \notin DOMAIN t},
          ig \in {"-", <<RuleB>>} :
            fs = FsOf(TypeFs(w) @@ IgnoreAt(WorkDir, ig))
    /\ bucket = <<>>
    /\ cwd = WorkDir
    /\ pc = "idle"
    /\ loc = NoLoc
    /\ runs = 0
    /\ vanished = 0
    /\ now = 1
    /\ hist = <<>>

SpecStages == InitStages /\ [][NextSave]_vars

\* Restoring snapshots whose entry names are absolute or hold ".." components.
InitTraversal ==
    /\ \E w \in TraversalTrees : fs = FsOf(TypeFs(w))
    /\ \E a \in TraversalArchives : bucket = (KeyS :> Object(ZipData(a)))
    /\ cwd = WorkDir
    /\ pc = "idle"
    /\ loc = NoLoc
    /\ runs = 0
    /\ vanished = 0
    /\ now = 1
    /\ hist = <<>>

NextTraversal ==
    \/ DownloadFetch(KeyS, FALSE)
    \/ DownloadRestore

SpecTraversal == InitTraversal /\ [][NextTraversal]_vars

\* ------------------------------------------------------------------ properties

\* "<stem> (k)<suffix>" beside path: the number goes before the extension, or
\* at the end of a name that has none
Numbered(path, k) ==
    LET name == path[Len(path)]
        dot == RFind(name, ".")
        ext == IF 1 < dot /\ dot < Len(name) THEN SubSeq(name, dot, Len(name)) ELSE <<>>
        base == SubSeq(name, 1, Len(name) - Len(ext))
    IN  SubSeq(path, 1, Len(path) - 1) \o <<base \o <<" ", "(">> \o Digits(k) \o <<")">> \o ext>>

\* the members of the archive a download command fetched
FetchedMembers(f, l) == f[l.zip].data.entries

\* the step in which a download command runs unzip
UnzipStep == pc = "dl_fetched" /\ ~loc.only_download /\ pc' = "idle"

ProbePaths == (DOMAIN fs \ {<<>>}) \cup {cwd \o <<n>> : n \in {NameA, NameA1, NameB, NameC}}

\* C2: for a path that exists _resolve_conflict returns "<stem> (k)<suffix>"
\* in the same directory for the smallest k >= 1 whose name is free, and a
\* path that does not exist is returned unchanged.
C2_ResolveConflict ==
    \A p \in ProbePaths :
        IF p \notin DOMAIN fs THEN _resolve_conflict(fs, p) = p
        ELSE \E k \in 1..(Cardinality(DOMAIN fs) + 1) :
                /\ _resolve_conflict(fs, p) = Numbered(p, k)
                /\ Numbered(p, k) \notin DOMAIN fs
                /\ \A j \in 1..(k - 1) : Numbered(p, j) \in DOMAIN fs

\* C2 witness: an unzip was given the second numbered name, the first being taken
C2_Witness ==
    /\ loc.cmd = "download" /\ pc = "idle"
    /\ \E n \in 1..Len(loc.wrote) :
            /\ loc.wrote[n].final = Numbered(loc.wrote[n].dest, 2)
            /\ Numbered(loc.wrote[n].dest, 1) \in DOMAIN fs

\* a path relative to a directory above it, as components and as text
RelParts(path, root) == SubSeq(path, Len(root) + 1, Len(path))
RelText(path, root) == JoinWith(RelParts(path, root), "/")

\* the paths of a sequence of paths
PathSet(paths) == {paths[n] : n \in 1..Len(paths)}

\* the regular files at or below a directory
FilesUnder(f, root) == {p \in DOMAIN f : ~f[p].dir /\ p # root /\ IsPrefix(root, p)}

\* C3: after select_files and zip_files in one directory and unzip in an empty
\* one, every selected file is at the same relative path with the same
\* content, and the directory holds no file that was not selected.
C3_RoundTrip ==
    (loc.cmd = "roundtrip" /\ pc = "idle") =>
        /\ loc.result = "returned"
        /\ \A file \in PathSet(loc.files_to_save) :
            /\ IsFile(fs, cwd \o RelParts(file, loc.root))
            /\ fs[cwd \o RelParts(file, loc.root)].data = fs[file].data
        /\ \A q \in FilesUnder(fs, cwd) :
            \E file \in PathSet(loc.files_to_save) : q = cwd \o RelParts(file, loc.root)

\* C3 witness: a round trip of a selection that has a file in a subdirectory
\* and leaves a file of the project out
C3_Witness ==
    /\ loc.cmd = "roundtrip" /\ pc = "idle" /\ loc.result = "returned"
    /\ \E file \in PathSet(loc.files_to_save) : Len(RelParts(file, loc.root)) > 1
    /\ \E p \in FilesUnder(fs, loc.root) : p \notin PathSet(loc.files_to_save)

\* the rule lines of the ignore file of a directory (none when it is absent)
RuleLines(f, root) ==
    IF (root \o <<IGNORE_FILE>>) \in DOMAIN f THEN f[root \o <<IGNORE_FILE>>].data.lines ELSE <<>>

\* rule i is a rule and matches the relative path
RuleHits(lines, i, parts) ==
    ParseRule(lines[i]).include # "none" /\ MatchFrom(ParseRule(lines[i]).segs, 1, parts, 1)

\* the rule set excludes a path: a plain rule matches it and no later rule does
Excluded(lines, parts) ==
    \E i \in 1..Len(lines) :
        /\ RuleHits(lines, i, parts)
        /\ ParseRule(lines[i]).include = "yes"
        /\ \A j \in (i + 1)..Len(lines) : ~RuleHits(lines, j, parts)

C5_SaveRemovesArchive ==
    (pc = "idle" /\ loc.cmd = "save" /\ loc.key # <<>>) => loc.zip \notin DOMAIN fs

\* C6: once a download without --only-download has ended after the download
\* completed, by return or by exception, the downloaded archive is gone.
C6_RestoreRemovesArchive ==
    (pc = "idle" /\ loc.cmd = "download" /\ loc.zip # <<>> /\ ~loc.only_download)
        => loc.zip \notin DOMAIN fs

\* C7: when zip_files has raised, the archive it had created is gone.
C7_FailedZipLeavesNoArchive ==
    (pc = "idle" /\ loc.cmd = "save" /\ loc.result = "raised" /\ loc.key = <<>> /\ loc.zip # <<>>)
        => loc.zip \notin DOMAIN fs

\* zip_files stands before a file of its list that no longer exists
GoneAtWrite ==
    /\ pc = "save_zipping"
    /\ loc.idx <= Len(loc.files_to_save)
    /\ loc.files_to_save[loc.idx] \notin DOMAIN fs

\* C8: when the file zip_files comes to write is gone, its next step raises
\* out of the command; and whenever zip_files returns, every file of its list
\* has its entry in the archive.
C8_MissingFileRaises ==
    [][/\ (GoneAtWrite /\ loc' # loc) => (pc' = "idle" /\ loc'.result = "raised" /\ loc'.key = <<>>)
       /\ (pc = "save_zipping" /\ pc' = "save_zipped") =>
            \A file \in PathSet(loc.files_to_save) :
                \E m \in 1..Len(fs'[loc.zip].data.entries) :
                    fs'[loc.zip].data.entries[m].filename = RelText(file, loc.root)]_vars

\* C8 witness: zip_files has raised on a file that another process removed
C8_Witness ==
    /\ pc = "idle" /\ loc.cmd = "save" /\ loc.result = "raised" /\ loc.key = <<>>
    /\ loc.idx >= 1 /\ loc.idx <= Len(loc.files_to_save)
    /\ loc.files_to_save[loc.idx] \notin DOMAIN fs

\* C9: the archive zip_files returns has one entry per file of the list, in
\* the order of the list, each named by the file's path relative to the root.
C9_EntriesInOrder ==
    pc = "save_zipped" =>
        /\ Len(fs[loc.zip].data.entries) = Len(loc.files_to_save)
        /\ \A n \in 1..Len(loc.files_to_save) :
            /\ fs[loc.zip].data.entries[n].filename = RelText(loc.files_to_save[n], loc.root)
            /\ Head(fs[loc.zip].data.entries[n].filename) # "/"

\* C9 witness: an archive of several files, one of them in a subdirectory
C9_Witness ==
    /\ pc = "save_zipped"
    /\ Len(loc.files_to_save) >= 3
    /\ \E file \in PathSet(loc.files_to_save) : Len(RelParts(file, loc.root)) > 1

\* every command so far was a successful restore of one and the same
\* snapshot, the first of them started in an empty directory
RepeatedRestores ==
    /\ pc = "idle"
    /\ hist # <<>>
    /\ hist[1].fresh
    /\ \A r \in 1..Len(hist) :
        /\ hist[r].cmd = "download" /\ ~hist[r].only_download
        /\ hist[r].result = "returned"
        /\ hist[r].key = hist[1].key /\ hist[r].root = cwd

RestoredMembers == bucket[hist[1].key].data.entries
RestoredFiles == {i \in 1..Len(RestoredMembers) : ~MemberIsDir(RestoredMembers[i])}
MemberDest(i) == JoinPath(cwd, RestoredMembers[i].filename)

\* the paths the restores wrote member i to
Finals(i) ==
    UNION {{hist[r].wrote[x].final : x \in {y \in 1..Len(hist[r].wrote) : hist[r].wrote[y].member = i}}
            : r \in 1..Len(hist)}

\* p, "p (1)", ..., "p (n-1)"
FirstNames(p, n) == {p} \cup {Numbered(p, k) : k \in 1..(n - 1)}

Apart(i) ==
    LET names == FirstNames(MemberDest(i), Len(hist))
    IN  /\ \A j \in (1..Len(RestoredMembers)) \ {i} :
                names \cap (Prefixes(MemberDest(j)) \cup FirstNames(MemberDest(j), Len(hist))) = {}
        /\ \A r \in 1..Len(hist) :
                names \cap (Prefixes(hist[r].zip) \cup Prefixes(hist[r].log)) = {}

SelectionDone == pc = "idle" /\ loc.cmd \in {"status", "select2"}

\* a rule line that names a directory: a literal name followed by a slash
DirRule(line) ==
    /\ Len(line) >= 2
    /\ line[Len(line)] = "/"
    /\ \A n \in 1..(Len(line) - 1) : line[n] \notin {"/", "*", "!", "#", " "}
DirName(line) == SubSeq(line, 1, Len(line) - 1)

\* a rule line that re-includes
Negation(line) == line # <<>> /\ Head(line) = "!"

\* the relative path lies beneath a directory of that name
Beneath(parts, name) == \E n \in 1..(Len(parts) - 1) : parts[n] = name

\* C11: with a rule that names a directory and no later re-including rule,
\* no file anywhere beneath a directory of that name is selected; when the
\* ignore file holds only such rules, every file outside those directories is.
C11_DirectoryRuleExcludesDescendants ==
    SelectionDone =>
        LET lines == RuleLines(fs, cwd)
        IN  \A p \in FilesUnder(fs, cwd) :
                /\ (\E i \in 1..Len(lines) :
                        /\ DirRule(lines[i])
                        /\ Beneath(RelParts(p, cwd), DirName(lines[i]))
                        /\ \A j \in (i + 1)..Len(lines) : ~Negation(lines[j]))
                    => p \notin PathSet(loc.files_to_save)
                /\ (/\ lines # <<>>
                    /\ \A i \in 1..Len(lines) :
                            DirRule(lines[i]) /\ ~Beneath(RelParts(p, cwd), DirName(lines[i])))
                    => p \in PathSet(loc.files_to_save)

\* C11 witness: the rule b/ with a.t and b/c.t in the tree: a.t is selected,
\* b/c.t is not
C11_Witness ==
    /\ SelectionDone
    /\ RuleLines(fs, cwd) = <<RuleB>>
    /\ (cwd \o <<NameA>>) \in PathSet(loc.files_to_save)
    /\ (cwd \o <<NameB, NameC>>) \in DOMAIN fs
    /\ (cwd \o <<NameB, NameC>>) \notin PathSet(loc.files_to_save)

\* a rule line without a slash: a name, or * followed by an ending, with or
\* without a leading !
BaseRule(line) ==
    /\ line # <<>> /\ Head(line) # "#"
    /\ \A n \in 1..Len(line) : line[n] \notin {"/", " "}
    /\ \A n \in 2..Len(line) : line[n] \notin {"*", "!"}
RuleBody(line) == IF Negation(line) THEN Tail(line) ELSE line

\* such a rule matches a path when it matches one of its components
BaseHit(line, parts) ==
    \E n \in 1..Len(parts) :
        IF Head(RuleBody(line)) = "*"
        THEN EndsWith(parts[n], Tail(RuleBody(line)))
        ELSE parts[n] = RuleBody(line)

\* the positions of the rules that match the path
BaseHits(lines, parts) == {i \in 1..Len(lines) : BaseHit(lines[i], parts)}

LastOf(S) == CHOOSE i \in S : \A j \in S : j <= i

\* C12: for a file that several rules match, the last of them in file order
\* decides: the file is selected exactly when that rule is a ! rule.
C12_LastMatchingRuleDecides ==
    SelectionDone =>
        LET lines == RuleLines(fs, cwd)
        IN  (\A i \in 1..Len(lines) : BaseRule(lines[i])) =>
                \A p \in FilesUnder(fs, cwd) :
                    Cardinality(BaseHits(lines, RelParts(p, cwd))) >= 2 =>
                        (p \in PathSet(loc.files_to_save)
                            <=> Negation(lines[LastOf(BaseHits(lines, RelParts(p, cwd)))]))

\* C12 witness: a file selected by a ! rule after a plain rule, and a file
\* left out by a plain rule after a ! rule
C12_Witness ==
    /\ SelectionDone
    /\ \A i \in 1..Len(RuleLines(fs, cwd)) : BaseRule(RuleLines(fs, cwd)[i])
    /\ \E p \in FilesUnder(fs, cwd) :
            /\ p \in PathSet(loc.files_to_save)
            /\ \E i, j \in BaseHits(RuleLines(fs, cwd), RelParts(p, cwd)) :
                    i < j /\ ~Negation(RuleLines(fs, cwd)[i])
    /\ \E q \in FilesUnder(fs, cwd) :
            /\ q \notin PathSet(loc.files_to_save)
            /\ \E i, j \in BaseHits(RuleLines(fs, cwd), RelParts(q, cwd)) :
                    i < j /\ Negation(RuleLines(fs, cwd)[i])

\* a line of the ignore file that is no rule: empty, or a comment
NoRule(line) == line = <<>> \/ Head(line) = "#"

IgnoreAbsent == (cwd \o <<IGNORE_FILE>>) \notin DOMAIN fs

SelectionStep == hist' # hist /\ loc'.cmd \in {"status", "select2"}

\* C15: a command that only selects leaves every file and directory under the
\* project root as it was, none added, so that the selection is the same
\* before and after it.
C15_SelectionReadOnly ==
    [][SelectionStep =>
        /\ \A p \in DOMAIN fs \cup DOMAIN fs' :
                IsPrefix(cwd, p) => (p \in DOMAIN fs /\ p \in DOMAIN fs' /\ fs'[p] = fs[p])
        /\ select_files(fs', cwd) = select_files(fs, cwd)]_vars

\* the step in which zip_files writes a file of its list into the archive
ZipWriteStep == pc = "save_zipping" /\ loc'.idx = loc.idx + 1

\* C16: every file whose content zip_files places in the archive is stored
\* under the project root, the path followed through symbolic links.
C16_NoDataFromOutsideRoot ==
    [][ZipWriteStep => IsPrefix(loc.root, Resolve(fs, loc.files_to_save[loc.idx]))]_vars

\* what lies at or below a directory is the same before and after the step
SameUnder(dir) ==
    \A p \in DOMAIN fs \cup DOMAIN fs' :
        IsPrefix(dir, p) => (p \in DOMAIN fs /\ p \in DOMAIN fs' /\ fs'[p] = fs[p])

\* C17: unzip of a file that is no ZIP container raises, and nothing in the
\* target directory is created or changed.
C17_BadArchiveRaises ==
    [][(UnzipStep /\ ~fs[loc.zip].data.zip) =>
            (loc'.result = "raised" /\ loc'.wrote = <<>> /\ SameUnder(cwd))]_vars

\* C17 witness: a download command has run unzip on an object that is no ZIP
\* container, in a directory that holds files
C17_Witness ==
    /\ pc = "idle" /\ loc.cmd = "download" /\ ~loc.only_download
    /\ loc.result = "raised"
    /\ IsFile(fs, loc.zip) /\ ~fs[loc.zip].data.zip
    /\ (cwd \o <<NameA>>) \in DOMAIN fs

\* an entry of the archive needs a directory where the target holds a file
BlockedEntry(f, members, extract_to) ==
    \E i \in 1..Len(members) :
        \E q \in Prefixes(JoinPath(extract_to, members[i].filename)) :
            /\ IsFile(f, q)
            /\ (MemberIsDir(members[i]) \/ q # JoinPath(extract_to, members[i].filename))

\* C18: unzip of an archive with an entry it cannot place raises, and when
\* unzip raises every file it had written for earlier entries is in the target
\* directory with the entry's content.
C18_NoRollback ==
    [][(UnzipStep /\ fs[loc.zip].data.zip) =>
            /\ BlockedEntry(fs, FetchedMembers(fs, loc), cwd) => loc'.result = "raised"
            /\ loc'.result = "raised" =>
                    \A n \in 1..Len(loc'.wrote) :
                        /\ IsFile(fs', loc'.wrote[n].final)
                        /\ fs'[loc'.wrote[n].final].data
                                = FetchedMembers(fs, loc)[loc'.wrote[n].member].data]_vars

\* C18 witness: unzip has raised after it had written two files
C18_Witness ==
    /\ pc = "idle" /\ loc.cmd = "download" /\ loc.result = "raised"
    /\ Len(loc.wrote) >= 2
    /\ \A n \in 1..Len(loc.wrote) : IsFile(fs, loc.wrote[n].final)

\* a label that is empty or holds nothing but blanks
Blank(label) == \A n \in 1..Len(label) : label[n] = " "

\* a save command has ended
SaveEnded == pc = "idle" /\ loc.cmd = "save"

\* C19: a save under a blank label ends by an error, and no object of the
\* bucket has a key that is blank before its ".zip".
C19_BlankLabelRejected ==
    /\ (SaveEnded /\ Blank(loc.label)) => loc.result = "raised"
    /\ \A k \in DOMAIN bucket : ~Blank(SubSeq(k, 1, Len(k) - 4))

RECURSIVE Quotients(_)
Quotients(n) == IF Len(n) <= 1 THEN 0 ELSE 1 + Quotients(Tail(n))

UnitNames == << <<"B">>, <<"K", "B">>, <<"M", "B">>, <<"G", "B">>, <<"T", "B">>, <<"P", "B">> >>

\* the number that a string of decimal digits writes
RECURSIVE FromDecimal(_)
FromDecimal(ds) ==
    IF ds = <<>> THEN <<>>
    ELSE LET d == CHOOSE x \in 0..9 : Digits(x) = <<ds[Len(ds)]>>
         IN  Norm(MulFrom(FromDecimal(SubSeq(ds, 1, Len(ds) - 1)), 1, 10, d))

\* a <= b for byte counts
LimbLeq(a, b) ==
    \/ a = b
    \/ Len(a) < Len(b)
    \/ /\ Len(a) = Len(b)
       /\ \E i \in 1..Len(a) : a[i] < b[i] /\ \A j \in (i + 1)..Len(a) : a[j] = b[j]

\* text shows n / 1024^k with one decimal place: it reads "w.d", and w.d
\* differs from the value by no more than half a tenth
ShowsOneDecimal(text, n, k) ==
    LET parts == SplitAt(text, ".")
        tenths == FromDecimal(parts[1] \o parts[2])
        shifted(x) == IF x = <<>> THEN <<>> ELSE [i \in 1..k |-> 0] \o x
        twice == MulFrom(tenths, 1, 2, 0)
    IN  /\ Len(parts) = 2 /\ Len(parts[1]) >= 1 /\ Len(parts[2]) = 1
        /\ \A i \in 1..Len(text) : text[i] \in {"."} \cup {Digits(x)[1] : x \in 0..9}
        /\ LimbLeq(MulFrom(n, 1, 20, 0), shifted(AddAt(twice, 1, 1)))
        /\ LimbLeq(shifted(twice), AddAt(MulFrom(n, 1, 20, 0), k + 1, 1))

\* C21: for every byte count n, format_file_size(n) returns without error
\* the value n / 1024^k with one decimal place, a blank and the k-th of the
\* units B, KB, MB, GB, TB, PB, where k is the number of times n can be
\* divided by 1024 before the quotient is below 1024, at most 5; 0 gives
\* "0.0 B", 1536 gives "1.5 KB" and 1073741824 gives "1.0 GB".
C21_FormatFileSize ==
    loc.cmd = "format" =>
        LET n == loc.arg
            k == IF Quotients(n) > 5 THEN 5 ELSE Quotients(n)
            parts == SplitAt(loc.out.text, " ")
        IN  /\ ~loc.out.raised
            /\ Len(parts) = 2
            /\ parts[2] = UnitNames[k + 1]
            /\ ShowsOneDecimal(parts[1], n, k)
            /\ n = <<>> => loc.out.text = <<"0", ".", "0", " ", "B">>
            /\ n = <<512, 1>> => loc.out.text = <<"1", ".", "5", " ", "K", "B">>
            /\ n = <<0, 0, 0, 1>> => loc.out.text = <<"1", ".", "0", " ", "G", "B">>

\* the same for the byte counts that a double holds exactly
ExactSizesFormatted ==
    BitLength(loc.arg) <= MANT_DIG => C21_FormatFileSize

\* and for the byte counts whose nearest double is finite
FiniteSizesFormatted ==
    ~ToFloat(loc.arg).raised => C21_FormatFileSize

\* how a command that has ended went: it reported an error, it found
\* nothing to do, or it succeeded
HandledError(l) == l.result = "raised" \/ l.error
NothingToDo(l) == l.result = "exit0"
Succeeded(l) == l.result = "returned" /\ ~l.error

\* C22: every command ends with exit status 0 when it succeeds or finds
\* nothing to do, and with exit status 1 when it ends because of an error it
\* handled (invalid input, failed download or extraction, storage error).
C22_ExitStatus ==
    \A i \in 1..Len(hist) :
        /\ HandledError(hist[i]) => ExitStatus(hist[i].result) = 1
        /\ (Succeeded(hist[i]) \/ NothingToDo(hist[i])) => ExitStatus(hist[i].result) = 0

\* the ignore file of the directory the commands run in
IgnorePath == cwd \o <<IGNORE_FILE>>

InitStep == hist' # hist /\ loc'.cmd = "init"

\* C23: init never changes an existing ignore file, whatever tool is given,
\* so that any number of runs leaves the file as the first one did; the file
\* is written only when it did not exist, and then with the template of the
\* requested tool.
C23_InitKeepsIgnoreFile ==
    [][InitStep =>
        /\ Exists(fs, IgnorePath) => (Exists(fs', IgnorePath) /\ fs'[IgnorePath] = fs[IgnorePath])
        /\ (~Exists(fs, IgnorePath) /\ Exists(fs', IgnorePath)) =>
                /\ loc'.arg \in CodeTool
                /\ fs'[IgnorePath] = FileNode(TextData(TEMPLATES_WORKSTATE[loc'.arg]))
        /\ (~Exists(fs, IgnorePath) /\ loc'.arg \in CodeTool) => Exists(fs', IgnorePath)
        /\ \A i \in 1..Len(hist) :
                (hist[i].cmd = "init" /\ hist[i].arg \in CodeTool) =>
                    (Exists(fs, IgnorePath) /\ fs'[IgnorePath] = fs[IgnorePath])
    ]_vars

\* C23 witness: init ran for php where there was no ignore file, then for c,
\* and the file holds the template of php
C23_Witness ==
    /\ Len(hist) = 2
    /\ hist[1].cmd = "init" /\ hist[1].arg = TOOL_PHP
    /\ hist[2].cmd = "init" /\ hist[2].arg = TOOL_C
    /\ fs[IgnorePath] = FileNode(TextData(TEMPLATES_WORKSTATE[TOOL_PHP]))

Listed == loc.cmd = "list" /\ loc.result = "returned"

\* C24: the list command displays the snapshots by modification date, most
\* recent first: the last-modified times of its rows never increase.
C24_ListingMostRecentFirst ==
    Listed =>
        \A i, j \in 1..Len(loc.out) : i < j => loc.out[i].modified >= loc.out[j].modified

\* C25: the list command displays exactly the objects of the bucket whose
\* key ends in ".zip", each of them once.
C25_OnlySnapshotsListed ==
    Listed =>
        /\ {loc.out[i].key : i \in 1..Len(loc.out)}
                = {k \in DOMAIN bucket : Len(k) >= 4 /\ SubSeq(k, Len(k) - 3, Len(k)) = <<".", "z", "i", "p">>}
        /\ \A i, j \in 1..Len(loc.out) : loc.out[i].key = loc.out[j].key => i = j

\* C25 witness: of a bucket with n.t, n.zip, s.ZIP and s.zip the two
\* snapshots were listed
C25_Witness ==
    /\ Listed
    /\ DOMAIN bucket = {KeyN, KeyS, KeyT, KeyZ}
    /\ Len(loc.out) = 2

\* the stages of a save, in the order of execute
StageOf(p) ==
    IF p = "save_selected" THEN 1
    ELSE IF p = "save_zipping" THEN 2
    ELSE IF p = "save_zipped" THEN 3
    ELSE 0

\* the archive of the running save is complete: one entry for each selected file
ArchiveComplete ==
    /\ loc.idx > Len(loc.files_to_save)
    /\ IsFile(fs, loc.zip)
    /\ fs[loc.zip].data.zip
    /\ Len(fs[loc.zip].data.entries) = Len(loc.files_to_save)

C27_UnzipStaysInside ==
    [][UnzipStep =>
        \A q \in DOMAIN fs' :
            (q \notin DOMAIN fs \/ fs'[q] # fs[q]) => IsPrefix(cwd, q)
    ]_vars

\* the step that is a whole run of download-url
UrlStep == hist' # hist /\ loc'.cmd = "download-url"

\* C28: download-url never overwrites a file that exists locally, neither
\* when it writes the downloaded archive to its output path nor when it
\* extracts the archive's entries: every file is there afterwards with the
\* content it had.
C28_DownloadUrlKeepsFiles ==
    [][UrlStep =>
        \A q \in DOMAIN fs :
            IsFile(fs, q) => (q \in DOMAIN fs' /\ fs'[q] = fs[q])
    ]_vars

\* C29: every URL that the share command obtained is displayed as three parts
\* that download-url puts together into that same URL: the parts
\* reassembled equal the URL, and the URL a download made from displayed
\* parts asks for is the URL of a share.
C29_ShareRoundTrip ==
    \A i \in DOMAIN hist :
        /\ (hist[i].cmd = "share" /\ hist[i].arg # <<>>) =>
                /\ hist[i].result = "returned"
                /\ full_url(hist[i].out[1], hist[i].out[2], hist[i].out[3]) = hist[i].arg
        /\ hist[i].cmd = "download-url" =>
                \E j \in 1..(i - 1) : hist[j].cmd = "share" /\ hist[j].arg = hist[i].arg

\* the version 2 URLs without a session token do make the round trip
PlainVersion2RoundTrip ==
    \A i \in DOMAIN hist :
        (hist[i].cmd = "share" /\ hist[i].result = "returned" /\ hist[i].arg # <<>>
            /\ Len(SplitAt(hist[i].arg, "&")) = 3)
        => full_url(hist[i].out[1], hist[i].out[2], hist[i].out[3]) = hist[i].arg

\* the successful saves and deletes of the history that were made on key
CommandsOn(key) ==
    {i \in DOMAIN hist : /\ hist[i].cmd \in {"save", "delete"}
                         /\ hist[i].result = "returned"
                         /\ hist[i].key = key}
LastOn(key) == CHOOSE i \in CommandsOn(key) : \A j \in CommandsOn(key) : j <= i
Times(listing, key) == Cardinality({i \in DOMAIN listing : listing[i] = key})
Untouched(key) ==
    /\ key \in DOMAIN bucket <=> key \in DOMAIN bucket'
    /\ key \in DOMAIN bucket => bucket'[key] = bucket[key]
SavedStep == hist' # hist /\ loc'.cmd = "save" /\ loc'.result = "returned"
DeletedStep == hist' # hist /\ loc'.cmd = "delete" /\ loc'.result = "returned"
LastCommandDecides ==
    /\ \A label \in BucketLabels :
        LET key == label \o DOT_ZIP
        IN  CommandsOn(key) # {} =>
                (Times(list_states(bucket), key) = 1 <=> hist[LastOn(key)].cmd = "save")
    /\ \A key \in DOMAIN bucket : Times(list_states(bucket), key) <= 1
BucketStep ==
    /\ SavedStep =>
        /\ loc'.key = loc'.label \o DOT_ZIP
        /\ Times(list_states(bucket'), loc'.key) = 1
        /\ bucket'[loc'.key].data = fs[loc.zip].data
        /\ \A key \in (DOMAIN bucket \cup DOMAIN bucket') \ {loc'.key} : Untouched(key)
    /\ DeletedStep =>
        /\ Times(list_states(bucket'), loc'.key) = 0
        /\ \A key \in (DOMAIN bucket \cup DOMAIN bucket') \ {loc'.key} : Untouched(key)
    /\ ~(SavedStep \/ DeletedStep) => bucket' = bucket

====
